---- MODULE Spec2Model ----
(***************************************************************************)
(* ScaleFS (moneytech/scalefs): the physical journal (flush_journal_locked,*)
(* add_fsync_to_journal, process_journal, reset_journal) and the oplog     *)
(* dependency resolver (process_metadata_log, process_ops_from_oplog,      *)
(* apply_rename_pair) of src/kernel/scalefs.cc.                            *)
(*                                                                         *)
(* SpecJournal : transactions are appended to the journal's transaction    *)
(*               log, flushed step by step to the journal file and to the  *)
(*               home locations; the machine may crash between any two     *)
(*               disk writes and process_journal runs at the next boot.    *)
(* SpecResolver: system calls log metadata operations in the per-mnode     *)
(*               oplogs; two threads run process_metadata_log_and_flush    *)
(*               concurrently, one oplog step at a time; a transaction is  *)
(*               the set of operations applied into it.                    *)
(* SpecAlloc   : alloc_block and free_block of the free-block allocator,   *)
(*               called directly, one lock step at a time.                 *)
(* SpecBlocks  : the allocator under its callers: bmap from readi and      *)
(*               writei, itrunc, the transactions and their flush.         *)
(* SpecInode   : the inode cache (iget, onzero), the inode lock (ilock,    *)
(*               iunlock), ialloc and the mnode <-> inode binding of       *)
(*               src/kernel/fs.cc and scalefs.cc.                          *)
(* SpecDir     : one directory: dirlookup, dirlink and dirunlink under     *)
(*               create_directory_entry and unlink_old_inode.              *)
(* SpecReclaim : the superblock's list of inodes to reclaim:               *)
(*               defer_inode_reclaim under unlink_old_inode, and initfs at *)
(*               the next boot.                                            *)
(* SpecSameDir : the resolver with renames inside one directory.           *)
(* SpecJournalLock: the callers of prepare_for_commit, the appends to the  *)
(*               transaction log and the loop of flush_journal_locked.     *)
(* SpecJournalLive, SpecResolverLive: the journal and the resolver with    *)
(*               weak fairness of the steps of a running thread.           *)
(***************************************************************************)
EXTENDS Integers, Sequences, FiniteSets, TLC

(* ---------------------------- bounds ----------------------------------- *)
\* number of timestamps (transactions / operations) handed out in one run
MaxTs == 2
\* number of home-location disk blocks a transaction may write (1..NBlocks)
NBlocks == 3
\* number of crashes in one behaviour
MaxCrashes == 1
\* the count of intermediate cycles of one flush stops here
MaxCycles == 2

(* ----------------- program constants (scaled down) --------------------- *)
\* sizeof(journal_block_header): 32 bytes in the program, 1 here
hdr_size == 1
\* BSIZE: 4096 bytes in the program, 2 here
BSIZE == 2
\* the fixed length of /sv6journal: 4 <header, block> records here
PHYS_JOURNAL_SIZE == 12

RecSize == hdr_size + BSIZE

Blocks == 1..NBlocks

\* the journal file as the disk holds it: slot s is the record at byte
\* offset s * RecSize. writei() past the end of the file allocates blocks
\* (src/kernel/fs.cc writei/bmap), so slots past PHYS_JOURNAL_SIZE exist on
\* disk, but readi() never returns them (ip->size is not changed by writei).
MaxA(a, b) == IF a >= b THEN a ELSE b
LastSlot == MaxA(NBlocks + 1, (PHYS_JOURNAL_SIZE \div RecSize))
Slots == 0..LastSlot

\* block types of a journal_block_header; "zero" is the all-zero header
ZeroRec == [type |-> "zero", ts |-> 0, bno |-> 0, data |-> 0]
StartRec(t) == [type |-> "start", ts |-> t, bno |-> 0, data |-> 0]
CommitRec(t) == [type |-> "commit", ts |-> t, bno |-> 0, data |-> 0]
DataRec(t, b) == [type |-> "data", ts |-> t, bno |-> b.bno, data |-> b.data]

VARIABLES
  mode,                 \* "run": the kernel is up; "boot": initfs is recovering
  crashes,              \* number of crashes so far
  tsc,                  \* the last timestamp handed out (get_tsc)
  transaction_log,      \* fs_journal->transaction_log
  offset,               \* fs_journal->current_offset()
  jpc,                  \* position of the thread holding the journal lock
  it,                   \* flush_journal_locked: loop iterator (index)
  timestamp,            \* flush_journal_locked: local timestamp
  prolog_timestamp,     \* flush_journal_locked: local prolog_timestamp
  trans,                \* journal-file blocks written through writei(), not yet on disk
  prune_trans,          \* blocks of the current batch
  processed_trans_vec,  \* sub-transactions of the current batch (indices)
  retrying,             \* the epilogue was entered from the 'no space' branch
  in_fsync,             \* the epilogue was entered from add_fsync_to_journal
  home_pending,         \* writeback_async() issued, async_iowait() not returned
  jdisk,                \* /sv6journal on disk
  disk,                 \* home locations on disk
  rpc,                  \* process_journal: position
  r_trans,              \* process_journal: trans (the apply set)
  jrnl_error,           \* process_journal: jrnl_error
  pj_runs,              \* consecutive runs of process_journal since the crash
  \* history variables (not read by the program)
  commit_written,       \* the jrnl_commit record of the current batch is on disk
  ideflushed,           \* ideflush() has completed since that commit was written
  home_issued,          \* a home-location write of the current batch was issued
  batch_all,            \* every block added to the current batch, in log order
  crash_batch,          \* the batch whose commit was on disk, with no home write, at the crash
  flush_log,            \* the transaction log as flush_journal_locked found it
  n_cycles,             \* intermediate commit-apply-reset cycles of the current flush
  j_at_scan,            \* the journal file as process_journal read it
  r_written,            \* blocks process_journal wrote to home locations
  snap                  \* disk and journal after the first process_journal run

jvars == <<mode, crashes, tsc, transaction_log, offset, jpc, it, timestamp,
           prolog_timestamp, trans, prune_trans, processed_trans_vec, retrying,
           in_fsync, home_pending, jdisk, disk, rpc, r_trans, jrnl_error,
           pj_runs, commit_written, ideflushed, home_issued, batch_all,
           crash_batch, flush_log, n_cycles, j_at_scan, r_written, snap>>

\* the journal variables the resolver specification leaves alone
jrest == <<mode, crashes, offset, jpc, it, timestamp, prolog_timestamp, trans,
           prune_trans, processed_trans_vec, retrying, in_fsync, home_pending,
           jdisk, disk, rpc, r_trans, jrnl_error, pj_runs, commit_written,
           ideflushed, home_issued, batch_all, crash_batch, flush_log, n_cycles, j_at_scan,
           r_written, snap>>

VARIABLES
  oplog,                \* mnum -> the mfs_logical_log: operation_vec and the loggers' buffer
  has_log,              \* the keys of metadata_log_htab
  lock,                 \* mfs_log->lock (and the guard of synchronize_upto_tsc): its holder
  mnum_to_inum,         \* the mnodes that have an inode binding
  memdir,               \* the in-memory namespace: <<directory, child>> pairs
  born,                 \* the file mnodes created so far
  ftype,                \* the type each of them was created with
  bufdir,               \* the on-disk directories as the buffer cache holds them
  nlink,                \* ip->nlink() of the inode of each file mnode
  panicked,             \* "" or the assertion / panic that stopped the kernel
  tpc,                  \* thread -> position in process_metadata_log_and_flush
  fs_mnum,              \* thread -> the mnode being fsynced
  fs_tsc,               \* thread -> max_tsc of the fsync
  pending_stack,        \* process_metadata_log: pending_stack
  rename_stack,         \* process_metadata_log: rename_stack
  rename_barrier_stack, \* process_metadata_log: rename_barrier_stack
  count,                \* process_ops_from_oplog: count
  process_create,       \* process_ops_from_oplog: process_create
  cur_log,              \* process_metadata_log: the mnum of mfs_log
  rm_1,                 \* apply_rename_pair: rm_1
  dst_log,              \* apply_rename_pair: the mnum mfs_log_dst points to
  rp_tr,                \* apply_rename_pair: the operations applied to tr
  \* history variables (not read by the program)
  flushed,              \* the transactions flushed so far, each as its set of operations
  target_ops,           \* thread -> the operations of m with timestamp <= T at the call
  unbound_link,         \* a link was applied while its child had no inode binding
  fsyncs,               \* number of fsync calls so far
  flush_between         \* a thread flushed the journal between the two applications of a rename

thrVars == <<tpc, fs_mnum, fs_tsc, pending_stack, rename_stack,
             rename_barrier_stack, count, process_create, cur_log, rm_1,
             dst_log, rp_tr>>
memVars == <<memdir, born, ftype>>
metaVars == <<oplog, has_log, lock, mnum_to_inum, bufdir, nlink, panicked>>
ghostVars == <<flushed, target_ops, unbound_link, fsyncs, flush_between>>
rvars == <<thrVars, memVars, metaVars, ghostVars>>

\* the free-block allocator of mfs_interface, the one file whose blocks it
\* serves, and the transactions that carry the block lists to the journal
VARIABLES
  free_bit_vector,      \* bno -> is_free of free_bit_vector[bno]
  free_bit_freelist,    \* the block numbers of the bits in free_bit_freelist
  freelist_lock,        \* its holder, "" when free
  write_lock,           \* bno -> the holder of free_bit::write_lock
  bitmap,               \* bno -> the bit of the free bitmap block in the buffer cache
  addrs,                \* ip->addrs[] of the file's inode, 0 = no block
  i_size,               \* ip->size of the file's inode, in blocks
  i_busy,               \* the holder of the file inode's write lock, "" when free
  alloc_log,            \* the transactions added to the journal, not yet flushed
  journal_lock,         \* the holder of the journal's write lock
  batch,                \* flush_journal_locked: the transactions being flushed
  batch_it,             \* flush_journal_locked: the position in the batch
  commit_rec,           \* the commit record of the batch is in the journal
  apc,                  \* thread -> position in its file-system call
  a_call,               \* thread -> the call it is in
  a_bn,                 \* bmap: bn
  a_bno,                \* alloc_block: bno / free_block: bno
  a_tr,                 \* thread -> the transaction of its call
  a_panic,              \* "" or the panic / assertion that stopped the kernel
  \* history variables (not read by the program)
  n_trans,              \* transactions created so far
  n_alloc,              \* alloc_block calls that returned a block
  n_free,               \* free_block calls that returned
  freed_other,          \* a free_block call freed a block no alloc_block call had returned
  got                   \* the blocks returned by alloc_block and not freed since

allocVars == <<free_bit_vector, free_bit_freelist, freelist_lock, write_lock>>
fileVars == <<bitmap, addrs, i_size, i_busy>>
flushVars == <<alloc_log, journal_lock, batch, batch_it, commit_rec>>
callVars == <<apc, a_call, a_bn, a_bno, a_tr, a_panic>>
countVars == <<n_trans, n_alloc, n_free, freed_other, got>>
avars == <<allocVars, fileVars, flushVars, callVars, countVars>>

\* the inode cache of fs.cc, the inode lock, the inode allocator and the
\* mnode <-> inode binding of mfs_interface
VARIABLES
  ins,                  \* the inode cache: inum -> in-memory inode, 0 = absent
  ino,                  \* in-memory inode -> its fields (inum 0: not allocated)
  dtype,                \* inum -> dinode.type in the buffer cache, 0 = free
  last_inode,           \* cpu -> the last inum it allocated
  mnode_lock,           \* mnum -> the holder of its sleeplock, "" when free
  b_mnum_to_inum,       \* mnum_to_inum: mnum -> inum, 0 = no entry
  inum_to_mnum,         \* inum_to_mnum: inum -> mnum, 0 = no entry
  next_mnum,            \* root_fs->alloc: the next mnode number
  ipc,                  \* thread -> position in its call
  i_call,               \* thread -> the call it is in
  i_mnum,               \* thread -> mnum of the call
  i_inum,               \* thread -> inum (iget, ialloc)
  i_ip,                 \* thread -> ip, the inode it refers to (0 = none)
  i_mode,               \* thread -> ilock: writer
  i_ret,                \* thread -> where iget / the release of ip returns to
  i_lret,               \* thread -> where ilock / iunlock returns to
  all_scanned,          \* thread -> ialloc: all_scanned
  i_panic,              \* "" or the panic that stopped the kernel
  \* history variables (not read by the program)
  i_holds,              \* thread -> the lock ilock gave it: [o, w], o = 0 none
  i_got,                \* thread -> the inode its last iget returned
  n_icalls              \* calls started so far

cacheVars == <<ins, ino, dtype, last_inode>>
bindVars == <<mnode_lock, b_mnum_to_inum, inum_to_mnum, next_mnum>>
icallVars == <<ipc, i_call, i_mnum, i_inum, i_ip, i_mode, i_ret, i_lret,
               all_scanned, i_panic>>
ihistVars == <<i_holds, i_got, n_icalls>>
ivars == <<cacheVars, bindVars, icallVars, ihistVars>>

\* one directory inode dp: its in-memory map, its file and the callers of
\* dirlink and dirunlink
VARIABLES
  dir,                  \* dp->dir: name -> [in, inum, off]; in = FALSE: no entry
  dir_offset,           \* dp->dir_offset, in dirents
  dslot,                \* the directory file as the transaction has it: slot -> dirent
  d_size,               \* dp->size, in dirents
  d_nlink,              \* inum -> nlink_ of the inode
  d_lock,               \* the holder of dp's write lock, "" when free
  dpc,                  \* thread -> position in its call
  d_name,               \* thread -> name
  d_inum,               \* thread -> inum (dirunlink: of the target, dirlink: to link)
  d_de,                 \* thread -> dirunlink: de_info
  d_link,               \* thread -> create_directory_entry: dirent_inum, 0 in unlink_old_inode
  d_rc,                 \* thread -> the value dirunlink / dirlink returned
  \* history variables (not read by the program)
  d_seen,               \* thread -> what its last dirlookup returned
  n_dcalls              \* calls started so far

dirVars == <<dir, dir_offset, dslot, d_size, d_nlink, d_lock>>
dcallVars == <<dpc, d_name, d_inum, d_de, d_link, d_rc>>
dvars == <<dirVars, dcallVars, d_seen, n_dcalls>>

\* the superblock's list of inodes to reclaim at the next boot
VARIABLES
  sb_root,              \* sb_root of fs.cc: the superblock as read at boot
  sb_disk,              \* the superblock in block 1 of the disk
  s_type,               \* inum -> "file" or "free": the dinode's type
  s_nlink,              \* inum -> nlink of the inode
  spc,                  \* "run", or "initfs" while initfs reclaims
  s_sb,                 \* initfs: its local superblock sb
  s_i,                  \* initfs: i
  s_panic,              \* "" or the assertion that stopped the kernel
  \* history variables (not read by the program)
  s_calls,              \* defer_inode_reclaim calls since the list was last empty
  s_owed,               \* the inodes recorded for reclaim since the last boot
  s_missed,             \* the inodes of s_owed that the last initfs did not reclaim
  s_boots               \* boots so far

svars == <<sb_root, sb_disk, s_type, s_nlink, spc, s_sb, s_i, s_panic,
           s_calls, s_owed, s_missed, s_boots>>

xvars == <<avars, ivars, dvars, svars>>

vars == <<jvars, rvars, xvars>>

(* ------------------------- helper operators ---------------------------- *)
Range(s) == {s[i] : i \in DOMAIN s}

RECURSIVE SetToSeq(_)
\* the blocks of a set in increasing block-number order
SetToSeq(S) ==
  IF S = {} THEN <<>>
  ELSE LET m == CHOOSE x \in S : \A y \in S : x <= y
       IN <<m>> \o SetToSeq(S \ {m})

\* transaction::deduplicate_blocks: of the blocks with one block number only
\* the one added last stays; the survivors keep their relative order
deduplicate_blocks(bs) ==
  LET keep == {i \in DOMAIN bs : \A k \in DOMAIN bs : bs[k].bno = bs[i].bno => k <= i}
      RECURSIVE Sel(_)
      Sel(i) == IF i > Len(bs) THEN <<>>
                ELSE (IF i \in keep THEN <<bs[i]>> ELSE <<>>) \o Sel(i + 1)
  IN Sel(1)

\* the header-and-block records write_journal_hdrblock appends at offset off
RECURSIVE hdrblocks(_, _)
hdrblocks(recs, off) ==
  IF recs = <<>> THEN <<>>
  ELSE <<[slot |-> off \div RecSize, rec |-> Head(recs)]>>
       \o hdrblocks(Tail(recs), off + RecSize)

\* write_journal_transaction_blocks: one jrnl_data record per block of vec,
\* each stamped with the timestamp argument
write_journal_transaction_blocks(vec, ts, off) ==
  hdrblocks([i \in DOMAIN vec |-> DataRec(ts, vec[i])], off)

\* fits_in_journal with a slip: records ending exactly at PHYS_JOURNAL_SIZE
\* are rejected
fits_in_journal_rejects_exact(n, off) ==
  ~ (off + (hdr_size + BSIZE) * (1 + n) >= PHYS_JOURNAL_SIZE)

\* fits_in_journal(num_trans_blocks), at the journal offset off
fits_in_journal(n, off) ==
  ~ (off + (hdr_size + BSIZE) * (1 + n) > PHYS_JOURNAL_SIZE)

\* reset_journal: a zero header at offset 0 of the journal file
reset_journal(j) == [j EXCEPT ![0] = ZeroRec]

\* readi(sv6_journal, dst, off, n): the number of bytes read
readi(off, n) ==
  IF off > PHYS_JOURNAL_SIZE THEN -1
  ELSE IF off + n > PHYS_JOURNAL_SIZE THEN PHYS_JOURNAL_SIZE - off
  ELSE n


(* ------------- what a journal file holds, stated declaratively --------- *)
\* slot k lies wholly inside the journal file
Readable(k) == (k + 1) * RecSize <= PHYS_JOURNAL_SIZE

\* the timestamp of the last jrnl_start before slot k (0 when there is none)
CurTs(j, k) ==
  LET S == {s \in 0..(k - 1) : j[s].type = "start"}
  IN IF S = {} THEN 0
     ELSE j[CHOOSE s \in S : \A x \in S : x <= s].ts

\* slot k holds a record whose timestamp is not the current transaction's
BadRecord(j, k) == j[k].type \in {"data", "commit"} /\ j[k].ts # CurTs(j, k)

\* the first slot that is not read as a good record: the zero header, the
\* end of the file or a bad record
ScanEnd(j) ==
  LET S == {k \in Slots : ~ Readable(k) \/ j[k].type = "zero" \/ BadRecord(j, k)}
  IN IF S = {} THEN LastSlot + 1
     ELSE CHOOSE k \in S : \A x \in S : k <= x

\* the data records between a jrnl_start and a jrnl_commit of the same
\* timestamp, all read before the scan ends
CommittedSlots(j) ==
  {k \in Slots :
     /\ k < ScanEnd(j)
     /\ j[k].type = "data"
     /\ \E c \in (k + 1)..(ScanEnd(j) - 1) :
          /\ j[c].type = "commit"
          /\ \A m \in k..(c - 1) : j[m].type = "data"
     /\ \E st \in 0..(k - 1) :
          /\ j[st].type = "start"
          /\ \A m \in (st + 1)..k : j[m].type = "data"}

\* the data records read after a jrnl_start that no jrnl_commit closes
UncommittedSlots(j) ==
  {k \in Slots : k < ScanEnd(j) /\ j[k].type = "data"} \ CommittedSlots(j)

BlockOf(r) == [bno |-> r.bno, data |-> r.data]

CommittedBlocks(j) == {BlockOf(j[k]) : k \in CommittedSlots(j)}

\* the content the last block of bs with block number b carries
LatestData(bs, b) ==
  LET I == {i \in DOMAIN bs : bs[i].bno = b}
  IN bs[CHOOSE i \in I : \A x \in I : x <= i].data

(* --------------------------- process_journal --------------------------- *)
\* process_journal with a slip: at the end of the log the blocks gathered
\* in block_vec are kept although no jrnl_commit was read
RECURSIVE pj_loop_keeps_block_vec(_, _, _, _, _)
pj_loop_keeps_block_vec(j, off, cur, vec, tr) ==
  IF readi(off, hdr_size) # hdr_size
  THEN [trans |-> tr \o vec, err |-> FALSE]
  ELSE LET hd == j[off \div RecSize] IN
    IF hd.type = "zero" /\ hd.ts = 0 /\ hd.bno = 0
    THEN [trans |-> tr \o vec, err |-> FALSE]
    ELSE IF readi(off + hdr_size, BSIZE) # BSIZE
    THEN [trans |-> tr \o vec, err |-> FALSE]
    ELSE CASE hd.type = "start" ->
                pj_loop_keeps_block_vec(j, off + RecSize, hd.ts, <<>>, tr)
           [] hd.type = "data" ->
                IF hd.ts = cur
                THEN pj_loop_keeps_block_vec(j, off + RecSize, cur,
                             Append(vec, [bno |-> hd.bno, data |-> hd.data]), tr)
                ELSE [trans |-> tr, err |-> TRUE]
           [] hd.type = "commit" ->
                IF hd.ts = cur
                THEN pj_loop_keeps_block_vec(j, off + RecSize, cur, <<>>, tr \o vec)
                ELSE [trans |-> tr, err |-> TRUE]
           [] OTHER -> [trans |-> tr, err |-> TRUE]

\* the while loop of process_journal over the journal file j, from byte
\* offset off, with current_transaction cur, block_vec vec and the blocks
\* already moved into trans tr
RECURSIVE pj_loop(_, _, _, _, _)
pj_loop(j, off, cur, vec, tr) ==
  IF readi(off, hdr_size) # hdr_size
  THEN [trans |-> tr, err |-> FALSE]
  ELSE LET hd == j[off \div RecSize] IN
    IF hd.type = "zero" /\ hd.ts = 0 /\ hd.bno = 0
    THEN [trans |-> tr, err |-> FALSE]
    ELSE IF readi(off + hdr_size, BSIZE) # BSIZE
    THEN [trans |-> tr, err |-> FALSE]
    ELSE CASE hd.type = "start" ->
                pj_loop(j, off + RecSize, hd.ts, <<>>, tr)
           [] hd.type = "data" ->
                IF hd.ts = cur
                THEN pj_loop(j, off + RecSize, cur,
                             Append(vec, [bno |-> hd.bno, data |-> hd.data]), tr)
                ELSE [trans |-> tr, err |-> TRUE]
           [] hd.type = "commit" ->
                IF hd.ts = cur
                THEN pj_loop(j, off + RecSize, cur, <<>>, tr \o vec)
                ELSE [trans |-> tr, err |-> TRUE]
           [] OTHER -> [trans |-> tr, err |-> TRUE]

(* ------------------------------ state ---------------------------------- *)
flushLocals == <<it, timestamp, prolog_timestamp, trans, prune_trans,
                 processed_trans_vec, retrying, in_fsync>>
recovVars == <<rpc, r_trans, jrnl_error, pj_runs, j_at_scan, r_written, snap>>
histVars == <<commit_written, ideflushed, home_issued, batch_all, crash_batch,
             flush_log, n_cycles>>

NoBatch == [valid |-> FALSE, blocks |-> <<>>]
NoSnap == [disk |-> <<>>, jdisk |-> <<>>, wrote |-> {}]

\* the in-memory state of a freshly booted kernel
MemInit ==
  /\ transaction_log = <<>>
  /\ offset = 0
  /\ jpc = "idle"
  /\ it = 1
  /\ timestamp = 0
  /\ prolog_timestamp = 0
  /\ trans = <<>>
  /\ prune_trans = <<>>
  /\ processed_trans_vec = <<>>
  /\ retrying = FALSE
  /\ in_fsync = FALSE
  /\ home_pending = {}
  /\ commit_written = FALSE
  /\ ideflushed = FALSE
  /\ home_issued = FALSE
  /\ batch_all = <<>>
  /\ flush_log = <<>>
  /\ n_cycles = 0

\* a reboot leaves the in-memory state of a freshly booted kernel
MemReset ==
  /\ transaction_log' = <<>>
  /\ offset' = 0
  /\ jpc' = "idle"
  /\ it' = 1
  /\ timestamp' = 0
  /\ prolog_timestamp' = 0
  /\ trans' = <<>>
  /\ prune_trans' = <<>>
  /\ processed_trans_vec' = <<>>
  /\ retrying' = FALSE
  /\ in_fsync' = FALSE
  /\ home_pending' = {}
  /\ commit_written' = FALSE
  /\ ideflushed' = FALSE
  /\ home_issued' = FALSE
  /\ batch_all' = <<>>
  /\ flush_log' = <<>>
  /\ n_cycles' = 0

(* ----------------------- resolver: the objects -------------------------- *)
\* number of timestamps handed out to metadata operations in one run
MaxOpTs == 3
\* number of fsync calls in one run
MaxFsyncs == 2

\* the mnode number of the root directory
root_mnum == 1
\* two directories that exist on disk at boot, and the file mnodes created later
Dirs == {2, 3}
Files == {4}
Mnums == {root_mnum} \cup Dirs \cup Files
Threads == {"t1", "t2"}
Types == {"file", "dir"}

\* an mfs_operation; the fields a variant does not have are 0 / "file"
Op(k, t, m, p, s, d, ty) ==
  [kind |-> k, ts |-> t, mnum |-> m, parent |-> p, src |-> s, dst |-> d,
   type |-> ty]

\* an mfs_logical_log: operation_vec, and the operations the loggers hold
\* that synchronize_upto_tsc has not gathered yet
EmptyLog == [vec |-> <<>>, buf |-> <<>>]

NoRm == [src |-> 0, dst |-> 0, ts |-> 0]

\* the resolver state of a freshly booted kernel: the root and the two
\* directories were loaded from disk and have an oplog and an inode; the
\* mnodes of the set old, of type ty, are on disk as well, in directory 2
ResolverBoot(old, ty) ==
  /\ oplog = [m \in Mnums |-> EmptyLog]
  /\ has_log = {root_mnum} \cup Dirs \cup old
  /\ lock = [m \in Mnums |-> "free"]
  /\ mnum_to_inum = {root_mnum} \cup Dirs \cup old
  /\ memdir = {<<2, f>> : f \in old}
  /\ born = old
  /\ ftype = [f \in Files |-> IF f \in old THEN ty ELSE "file"]
  /\ bufdir = {<<2, f>> : f \in old}
  /\ nlink = [f \in Files |-> IF f \in old THEN 1 ELSE 0]
  /\ panicked = ""
  /\ tpc = [t \in Threads |-> "idle"]
  /\ fs_mnum = [t \in Threads |-> 0]
  /\ fs_tsc = [t \in Threads |-> 0]
  /\ pending_stack = [t \in Threads |-> <<>>]
  /\ rename_stack = [t \in Threads |-> <<>>]
  /\ rename_barrier_stack = [t \in Threads |-> <<>>]
  /\ count = [t \in Threads |-> 0]
  /\ process_create = [t \in Threads |-> FALSE]
  /\ cur_log = [t \in Threads |-> 0]
  /\ rm_1 = [t \in Threads |-> NoRm]
  /\ dst_log = [t \in Threads |-> 0]
  /\ rp_tr = [t \in Threads |-> {}]
  /\ flushed = {}
  /\ target_ops = [t \in Threads |-> {}]
  /\ unbound_link = FALSE
  /\ fsyncs = 0
  /\ flush_between = FALSE

(* ------------------ the free-block allocator: objects ------------------- *)
\* sb.size: the blocks of the disk are 0 .. sb_size - 1, block 0 holds metadata
sb_size == 4
\* the entries of ip->addrs[] of the file
NAddrs == 2
\* transactions created in one run
MaxTrans == 3
\* alloc_block and free_block calls made by the direct callers in one run
MaxCalls == 4

Bnos == 0..(sb_size - 1)
DataBnos == 1..(sb_size - 1)
AddrSlots == 0..(NAddrs - 1)

\* a transaction: the block numbers it allocated and freed; `delayed` records
\* which of the freed ones came from bfree(.., delayed_free = true)
NoTrans == [valid |-> FALSE, allocated_block_list |-> <<>>,
            free_block_list |-> <<>>, delayed |-> {}]
EmptyTrans == [NoTrans EXCEPT !.valid = TRUE]
add_allocated_block(tr, b) ==
  [tr EXCEPT !.allocated_block_list = Append(@, b)]
add_free_block(tr, b) == [tr EXCEPT !.free_block_list = Append(@, b)]

\* the bits of the free bitmap block, scanned in ascending order: a clear bit
\* is a free block and is pushed to the back of the freelist
RECURSIVE free_bits_from(_, _)
free_bits_from(bm, b) ==
  IF b >= sb_size THEN <<>>
  ELSE (IF bm[b] THEN <<>> ELSE <<b>>) \o free_bits_from(bm, b + 1)

initialize_free_bit_vector(bm) ==
  [vector |-> [b \in Bnos |-> ~ bm[b]], freelist |-> free_bits_from(bm, 0)]

\* the allocator after boot, the data blocks in `used` allocated on the disk;
\* the file is empty and spans NAddrs blocks
AllocBoot(used) ==
  LET bm == [b \in Bnos |-> b = 0 \/ b \in used] IN
  /\ bitmap = bm
  /\ free_bit_vector = initialize_free_bit_vector(bm).vector
  /\ free_bit_freelist = initialize_free_bit_vector(bm).freelist
  /\ freelist_lock = ""
  /\ write_lock = [b \in Bnos |-> ""]
  /\ addrs = [i \in AddrSlots |-> 0]
  /\ i_size = NAddrs
  /\ i_busy = ""
  /\ alloc_log = <<>>
  /\ journal_lock = ""
  /\ batch = <<>>
  /\ batch_it = 1
  /\ commit_rec = FALSE
  /\ apc = [t \in Threads |-> "idle"]
  /\ a_call = [t \in Threads |-> ""]
  /\ a_bn = [t \in Threads |-> 0]
  /\ a_bno = [t \in Threads |-> 0]
  /\ a_tr = [t \in Threads |-> NoTrans]
  /\ a_panic = ""
  /\ n_trans = 0
  /\ n_alloc = 0
  /\ n_free = 0
  /\ freed_other = FALSE
  /\ got = {}

\* bounds of the inode specification
\* sb_root.ninodes: the inode numbers are 0..ninodes-1, 0 is never allocated
ninodes == 3
\* in-memory inodes allocated in one run
MaxObjs == 3
\* mnode numbers in one run: 1..NUserMnodes are the mnodes of userspace,
\* the ones above are allocated by mnode_alloc
NUserMnodes == 2
MaxMnum == 4
\* calls in one run
MaxICalls == 4

INums == 1..(ninodes - 1)
Objs == 1..MaxObjs
IMnums == 1..MaxMnum
T_FILE == 2

\* inode::inode(): a fresh in-memory inode; inum 0 stands for "not allocated"
NoInode == [inum |-> 0, busy |-> FALSE, readbusy |-> 0, valid |-> FALSE,
            ref |-> 0, type |-> 0]
NoHold == [o |-> 0, w |-> FALSE]

\* the inode layer after boot: the inodes in `old` and in `unloaded` are
\* files on the disk, inode k of `old` is bound to mnode k; nothing is cached
InodeBoot(old, unloaded) ==
  /\ ins = [i \in INums |-> 0]
  /\ ino = [o \in Objs |-> NoInode]
  /\ dtype = [i \in INums |-> IF i \in old \cup unloaded THEN T_FILE ELSE 0]
  /\ last_inode = [t \in Threads |-> 0]
  /\ mnode_lock = [m \in IMnums |-> ""]
  /\ b_mnum_to_inum = [m \in IMnums |-> IF m \in old THEN m ELSE 0]
  /\ inum_to_mnum = [i \in INums |-> IF i \in old THEN i ELSE 0]
  /\ next_mnum = NUserMnodes + 1
  /\ ipc = [t \in Threads |-> "idle"]
  /\ i_call = [t \in Threads |-> ""]
  /\ i_mnum = [t \in Threads |-> 0]
  /\ i_inum = [t \in Threads |-> 0]
  /\ i_ip = [t \in Threads |-> 0]
  /\ i_mode = [t \in Threads |-> FALSE]
  /\ i_ret = [t \in Threads |-> ""]
  /\ i_lret = [t \in Threads |-> ""]
  /\ all_scanned = [t \in Threads |-> FALSE]
  /\ i_panic = ""
  /\ i_holds = [t \in Threads |-> NoHold]
  /\ i_got = [t \in Threads |-> 0]
  /\ n_icalls = 0

\* bounds of the directory specification
\* dirent slots of the directory file
MaxSlots == 3
\* calls in one run
MaxDCalls == 3

Names == {"a", "b"}
DInums == 1..2
DSlots == 0..(MaxSlots - 1)
\* dir_entry_info(): what lookup gives for a name that is not in the map
NoEntry == [in |-> FALSE, inum |-> 0, off |-> 0]
NoDirent == [name |-> "", inum |-> 0]

\* the directory after dir_init: the names in `linked` are on the disk, "a"
\* in slot 0 with inode 1 and "b" after it with inode 2
DirBoot(linked) ==
  LET slot(n) == IF n = "a" THEN 0 ELSE Cardinality(linked \cap {"a"})
      ino_of(n) == IF n = "a" THEN 1 ELSE 2 IN
  /\ dir = [n \in Names |-> IF n \in linked
                               THEN [in |-> TRUE, inum |-> ino_of(n), off |-> slot(n)]
                               ELSE NoEntry]
  /\ dir_offset = Cardinality(linked)
  /\ dslot = [k \in DSlots |->
               IF \E n \in linked : slot(n) = k
                 THEN LET n == CHOOSE x \in linked : slot(x) = k IN
                      [name |-> n, inum |-> ino_of(n)]
                 ELSE NoDirent]
  /\ d_size = Cardinality(linked)
  /\ d_nlink = [i \in DInums |-> IF \E n \in linked : ino_of(n) = i THEN 1 ELSE 0]
  /\ d_lock = ""
  /\ dpc = [t \in Threads |-> "idle"]
  /\ d_name = [t \in Threads |-> ""]
  /\ d_inum = [t \in Threads |-> 0]
  /\ d_de = [t \in Threads |-> NoEntry]
  /\ d_link = [t \in Threads |-> 0]
  /\ d_rc = [t \in Threads |-> 0]
  /\ d_seen = [t \in Threads |-> 0]
  /\ n_dcalls = 0

\* bounds of the reclaim specification
\* NRECLAIM_INODES: the length of superblock.reclaim_inodes[]
NRECLAIM_INODES == 2
\* inode numbers of the reclaim specification
MaxSInum == 3
\* boots in one run
MaxBoots == 2

SInums == 1..MaxSInum
SSlots == 0..(NRECLAIM_INODES - 1)
EmptySb == [num |-> 0, list |-> [k \in SSlots |-> 0]]

\* a file system with an empty reclaim list, every inode a linked file
ReclaimBoot ==
  /\ sb_root = EmptySb
  /\ sb_disk = EmptySb
  /\ s_type = [i \in SInums |-> "file"]
  /\ s_nlink = [i \in SInums |-> 1]
  /\ spc = "run"
  /\ s_sb = EmptySb
  /\ s_i = 0
  /\ s_panic = ""
  /\ s_calls = 0
  /\ s_owed = {}
  /\ s_missed = {}
  /\ s_boots = 0

\* the state of everything but the journal and the resolver in their
\* specifications
OtherBoot == AllocBoot({}) /\ InodeBoot({}, {}) /\ DirBoot({}) /\ ReclaimBoot

\* a file system whose journal was reset at boot: the journal file is empty
JournalFresh ==
  /\ mode = "run"
  /\ crashes = 0
  /\ tsc = 0
  /\ MemInit
  /\ jdisk = [s \in Slots |-> ZeroRec]
  /\ disk = [b \in Blocks |-> 0]
  /\ rpc = "off"
  /\ r_trans = <<>>
  /\ jrnl_error = FALSE
  /\ pj_runs = 0
  /\ crash_batch = NoBatch
  /\ j_at_scan = [s \in Slots |-> ZeroRec]
  /\ r_written = {}
  /\ snap = NoSnap

JournalInit == JournalFresh /\ ResolverBoot({}, "file") /\ OtherBoot

\* a new transaction: timestamp t, writing the blocks of the set bs; the
\* content a transaction writes to a block is tagged with its timestamp
NewTransaction(t, bs) ==
  [ts |-> t, blocks |-> [i \in 1..Cardinality(bs) |->
                           [bno |-> SetToSeq(bs)[i], data |-> t]]]

(* ---------------------- journal: normal operation ---------------------- *)
\* add_to_journal_locked / add_fsync_to_journal(tr, false): the caller
\* holds the journal lock and appends tr to the transaction log
add_to_journal_locked ==
  /\ mode = "run" /\ jpc = "idle" /\ tsc < MaxTs
  /\ \E bs \in SUBSET Blocks :
       transaction_log' = Append(transaction_log, NewTransaction(tsc + 1, bs))
  /\ tsc' = tsc + 1
  /\ UNCHANGED <<mode, crashes, offset, jpc, flushLocals, home_pending, jdisk,
                 disk, recovVars, histVars>>
  /\ UNCHANGED <<rvars, xvars>>

\* flush_journal_locked, lines 1041-1042: nothing to do
flush_journal_empty ==
  /\ mode = "run" /\ jpc = "idle"
  /\ Len(transaction_log) = 0
  /\ jpc' = "ret"
  /\ in_fsync' = FALSE
  /\ flush_log' = transaction_log
  /\ n_cycles' = 0
  /\ UNCHANGED <<mode, crashes, tsc, transaction_log, offset, it, timestamp,
                 prolog_timestamp, trans, prune_trans, processed_trans_vec,
                 retrying, home_pending, jdisk, disk, recovVars,
                 commit_written, ideflushed, home_issued, batch_all,
                 crash_batch>>
  /\ UNCHANGED <<rvars, xvars>>

\* flush_journal_locked, lines 1044-1057: the start record of the first batch
flush_journal_begin ==
  /\ mode = "run" /\ jpc = "idle"
  /\ Len(transaction_log) # 0
  /\ prolog_timestamp' = transaction_log[1].ts
  /\ timestamp' = 0
  /\ trans' = hdrblocks(<<StartRec(transaction_log[1].ts)>>, offset)
  /\ offset' = offset + RecSize
  /\ prune_trans' = <<>>
  /\ processed_trans_vec' = <<>>
  /\ it' = 1
  /\ retrying' = FALSE
  /\ in_fsync' = FALSE
  /\ jpc' = "loop"
  /\ commit_written' = FALSE
  /\ ideflushed' = FALSE
  /\ home_issued' = FALSE
  /\ batch_all' = <<>>
  /\ flush_log' = transaction_log
  /\ n_cycles' = 0
  /\ UNCHANGED <<mode, crashes, tsc, transaction_log, home_pending, jdisk,
                 disk, recovVars, crash_batch>>
  /\ UNCHANGED <<rvars, xvars>>

\* lines 1059-1072: the sub-transaction fits; its blocks move to prune_trans
flush_loop_fits ==
  /\ mode = "run" /\ jpc = "loop"
  /\ it <= Len(transaction_log)
  /\ fits_in_journal(Len(transaction_log[it].blocks), offset)
  /\ timestamp' = transaction_log[it].ts
  /\ prune_trans' = prune_trans \o transaction_log[it].blocks
  /\ batch_all' = batch_all \o transaction_log[it].blocks
  /\ transaction_log' = [transaction_log EXCEPT ![it].blocks = <<>>]
  /\ processed_trans_vec' = Append(processed_trans_vec, it)
  /\ it' = it + 1
  /\ UNCHANGED <<mode, crashes, tsc, offset, jpc, prolog_timestamp, trans,
                 retrying, in_fsync, home_pending, jdisk, disk, recovVars,
                 commit_written, ideflushed, home_issued, crash_batch,
                 flush_log, n_cycles>>
  /\ UNCHANGED <<rvars, xvars>>

\* lines 1074-1089: no space for the sub-transaction; the batch gathered so
\* far is deduplicated and its data records are written
flush_loop_nofit ==
  /\ mode = "run" /\ jpc = "loop"
  /\ it <= Len(transaction_log)
  /\ ~ fits_in_journal(Len(transaction_log[it].blocks), offset)
  /\ timestamp' = transaction_log[it].ts
  /\ prune_trans' = deduplicate_blocks(prune_trans)
  /\ trans' = trans \o write_journal_transaction_blocks(
                         deduplicate_blocks(prune_trans),
                         transaction_log[it].ts, offset)
  /\ offset' = offset + RecSize * Len(deduplicate_blocks(prune_trans))
  /\ retrying' = TRUE
  /\ jpc' = "epilog"
  /\ UNCHANGED <<mode, crashes, tsc, transaction_log, it, prolog_timestamp,
                 processed_trans_vec, in_fsync, home_pending, jdisk, disk,
                 recovVars, histVars>>
  /\ UNCHANGED <<rvars, xvars>>

\* the end of the loop with a slip: the batch is written without
\* deduplicate_blocks
flush_loop_end_no_dedup ==
  /\ mode = "run" /\ jpc = "loop"
  /\ it > Len(transaction_log)
  /\ IF processed_trans_vec # <<>>
     THEN /\ trans' = trans \o write_journal_transaction_blocks(
                                 prune_trans, timestamp, offset)
          /\ offset' = offset + RecSize * Len(prune_trans)
          /\ UNCHANGED prune_trans
     ELSE UNCHANGED <<prune_trans, trans, offset>>
  /\ retrying' = FALSE
  /\ jpc' = "epilog"
  /\ UNCHANGED <<mode, crashes, tsc, transaction_log, it, timestamp,
                 prolog_timestamp, processed_trans_vec, in_fsync, home_pending,
                 jdisk, disk, recovVars, histVars>>
  /\ UNCHANGED <<rvars, xvars>>

\* lines 1121-1131: after the loop, the remaining batch is deduplicated and
\* its data records are written
flush_loop_end ==
  /\ mode = "run" /\ jpc = "loop"
  /\ it > Len(transaction_log)
  /\ IF processed_trans_vec # <<>>
     THEN /\ prune_trans' = deduplicate_blocks(prune_trans)
          /\ trans' = trans \o write_journal_transaction_blocks(
                                 deduplicate_blocks(prune_trans),
                                 timestamp, offset)
          /\ offset' = offset + RecSize * Len(deduplicate_blocks(prune_trans))
     ELSE UNCHANGED <<prune_trans, trans, offset>>
  /\ retrying' = FALSE
  /\ jpc' = "epilog"
  /\ UNCHANGED <<mode, crashes, tsc, transaction_log, it, timestamp,
                 prolog_timestamp, processed_trans_vec, in_fsync, home_pending,
                 jdisk, disk, recovVars, histVars>>
  /\ UNCHANGED <<rvars, xvars>>


\* add_fsync_to_journal(tr, true), lines 1000-1014: one transaction is
\* written to the journal on its own, whatever the transaction log holds
add_fsync_to_journal ==
  /\ mode = "run" /\ jpc = "idle" /\ tsc < MaxTs
  /\ \E bs \in SUBSET Blocks :
       LET tr == NewTransaction(tsc + 1, bs)
           blks == deduplicate_blocks(tr.blocks)
       IN /\ prune_trans' = blks
          /\ batch_all' = tr.blocks
          /\ trans' = hdrblocks(<<StartRec(tr.ts)>>, offset)
                      \o write_journal_transaction_blocks(blks, tr.ts,
                                                          offset + RecSize)
          /\ offset' = offset + RecSize * (1 + Len(blks))
          /\ timestamp' = tr.ts
          /\ prolog_timestamp' = tr.ts
  /\ tsc' = tsc + 1
  /\ processed_trans_vec' = <<>>
  /\ retrying' = FALSE
  /\ in_fsync' = TRUE
  /\ jpc' = "epilog"
  /\ commit_written' = FALSE
  /\ ideflushed' = FALSE
  /\ home_issued' = FALSE
  /\ UNCHANGED <<mode, crashes, transaction_log, it, home_pending, jdisk, disk,
                 recovVars, crash_batch,
                 flush_log, n_cycles>>
  /\ UNCHANGED <<rvars, xvars>>

\* write_journal_trans_epilog, line 1273: trans->write_to_disk() writes the
\* start and data records to the journal file on disk, one block at a time
epilog_write_to_disk ==
  /\ mode = "run" /\ jpc = "epilog"
  /\ trans # <<>>
  /\ jdisk' = [jdisk EXCEPT ![Head(trans).slot] = Head(trans).rec]
  /\ trans' = Tail(trans)
  /\ UNCHANGED <<mode, crashes, tsc, transaction_log, offset, jpc, it,
                 timestamp, prolog_timestamp, prune_trans, processed_trans_vec,
                 retrying, in_fsync, home_pending, disk, recovVars, histVars>>
  /\ UNCHANGED <<rvars, xvars>>

\* write_journal_trans_epilog, lines 1274-1279: the commit record is written
\* into a new transaction, with the prologue's timestamp
epilog_commit_header ==
  /\ mode = "run" /\ jpc = "epilog"
  /\ trans = <<>>
  /\ trans' = hdrblocks(<<CommitRec(prolog_timestamp)>>, offset)
  /\ offset' = offset + RecSize
  /\ jpc' = "commit"
  /\ UNCHANGED <<mode, crashes, tsc, transaction_log, it, timestamp,
                 prolog_timestamp, prune_trans, processed_trans_vec, retrying,
                 in_fsync, home_pending, jdisk, disk, recovVars, histVars>>
  /\ UNCHANGED <<rvars, xvars>>

\* write_journal_trans_epilog, lines 1281-1282: the commit record goes to disk
epilog_commit_write ==
  /\ mode = "run" /\ jpc = "commit"
  /\ jdisk' = [jdisk EXCEPT ![Head(trans).slot] = Head(trans).rec]
  /\ trans' = Tail(trans)
  /\ commit_written' = TRUE
  /\ ideflushed' = FALSE
  /\ jpc' = "apply"
  /\ UNCHANGED <<mode, crashes, tsc, transaction_log, offset, it, timestamp,
                 prolog_timestamp, prune_trans, processed_trans_vec, retrying,
                 in_fsync, home_pending, disk, recovVars, home_issued,
                 batch_all, crash_batch,
                 flush_log, n_cycles>>
  /\ UNCHANGED <<rvars, xvars>>

\* post_process_transaction for every sub-transaction of the batch, then
\* apply_trans_on_disk, lines 981-982: writeback_async() of every block
apply_trans_on_disk ==
  /\ mode = "run" /\ jpc = "apply"
  /\ home_pending' = Range(prune_trans)
  /\ jpc' = "iowait"
  /\ UNCHANGED <<mode, crashes, tsc, transaction_log, offset, it, timestamp,
                 prolog_timestamp, trans, prune_trans, processed_trans_vec,
                 retrying, in_fsync, jdisk, disk, recovVars, histVars>>
  /\ UNCHANGED <<rvars, xvars>>

\* an asynchronous home-location write completes, in any order
writeback_async ==
  /\ mode = "run" /\ jpc = "iowait"
  /\ \E b \in home_pending :
       /\ disk' = [disk EXCEPT ![b.bno] = b.data]
       /\ home_pending' = home_pending \ {b}
  /\ home_issued' = TRUE
  /\ UNCHANGED <<mode, crashes, tsc, transaction_log, offset, jpc, flushLocals,
                 jdisk, recovVars, commit_written, ideflushed, batch_all,
                 crash_batch,
                 flush_log, n_cycles>>
  /\ UNCHANGED <<rvars, xvars>>

\* apply_trans_on_disk, lines 984-985 (async_iowait of every block), then
\* ideflush(), lines 1022, 1102, 1144
ideflush ==
  /\ mode = "run" /\ jpc = "iowait"
  /\ home_pending = {}
  /\ ideflushed' = TRUE
  /\ jpc' = "reset"
  /\ UNCHANGED <<mode, crashes, tsc, transaction_log, offset, it, timestamp,
                 prolog_timestamp, trans, prune_trans, processed_trans_vec,
                 retrying, in_fsync, home_pending, jdisk, disk, recovVars,
                 commit_written, home_issued, batch_all, crash_batch,
                 flush_log, n_cycles>>
  /\ UNCHANGED <<rvars, xvars>>

\* lines 1104-1116: reset_journal, then the sub-transaction that did not fit
\* is retried in a fresh batch whose start record carries its timestamp
reset_and_retry ==
  /\ mode = "run" /\ jpc = "reset"
  /\ ~ in_fsync /\ retrying
  /\ jdisk' = reset_journal(jdisk)
  /\ processed_trans_vec' = <<>>
  /\ prune_trans' = <<>>
  /\ prolog_timestamp' = timestamp
  /\ trans' = hdrblocks(<<StartRec(timestamp)>>, 0)
  /\ offset' = 0 + RecSize
  /\ retrying' = FALSE
  /\ jpc' = "loop"
  /\ commit_written' = FALSE
  /\ ideflushed' = FALSE
  /\ home_issued' = FALSE
  /\ batch_all' = <<>>
  /\ n_cycles' = IF n_cycles < MaxCycles THEN n_cycles + 1 ELSE n_cycles
  /\ UNCHANGED <<mode, crashes, tsc, transaction_log, it, timestamp, in_fsync,
                 home_pending, disk, recovVars, crash_batch,
                 flush_log>>
  /\ UNCHANGED <<rvars, xvars>>

\* the end of flush_journal_locked with a slip: the transaction log is not
\* cleared
reset_and_keep_log ==
  /\ mode = "run" /\ jpc = "reset"
  /\ ~ in_fsync /\ ~ retrying
  /\ jdisk' = reset_journal(jdisk)
  /\ offset' = 0
  /\ processed_trans_vec' = <<>>
  /\ jpc' = "ret"
  /\ UNCHANGED <<mode, crashes, tsc, transaction_log, it, timestamp,
                 prolog_timestamp, trans, prune_trans, retrying, in_fsync,
                 home_pending, disk, recovVars, histVars>>
  /\ UNCHANGED <<rvars, xvars>>

\* lines 1146-1159: reset_journal, then the transaction log is cleared
reset_and_clear ==
  /\ mode = "run" /\ jpc = "reset"
  /\ ~ in_fsync /\ ~ retrying
  /\ jdisk' = reset_journal(jdisk)
  /\ offset' = 0
  /\ processed_trans_vec' = <<>>
  /\ transaction_log' = <<>>
  /\ jpc' = "ret"
  /\ UNCHANGED <<mode, crashes, tsc, it, timestamp, prolog_timestamp, trans,
                 prune_trans, retrying, in_fsync, home_pending, disk,
                 recovVars, histVars>>
  /\ UNCHANGED <<rvars, xvars>>

\* add_fsync_to_journal, lines 1024-1026: reset_journal
fsync_reset ==
  /\ mode = "run" /\ jpc = "reset"
  /\ in_fsync
  /\ jdisk' = reset_journal(jdisk)
  /\ offset' = 0
  /\ jpc' = "ret"
  /\ UNCHANGED <<mode, crashes, tsc, transaction_log, it, timestamp,
                 prolog_timestamp, trans, prune_trans, processed_trans_vec,
                 retrying, in_fsync, home_pending, disk, recovVars, histVars>>
  /\ UNCHANGED <<rvars, xvars>>

\* flush_journal_locked / add_fsync_to_journal has returned; the caller
\* releases the journal lock
journal_unlock ==
  /\ mode = "run" /\ jpc = "ret"
  /\ jpc' = "idle"
  /\ UNCHANGED <<mode, crashes, tsc, transaction_log, offset, flushLocals,
                 home_pending, jdisk, disk, recovVars, histVars>>
  /\ UNCHANGED <<rvars, xvars>>

(* ------------------------- crash and recovery -------------------------- *)
\* power failure: memory is lost, the disk keeps what was written; initfs
\* runs process_journal at the next boot
crash ==
  /\ crashes < MaxCrashes
  /\ crashes' = crashes + 1
  /\ mode' = "boot"
  /\ MemReset
  /\ rpc' = "scan"
  /\ r_trans' = <<>>
  /\ jrnl_error' = FALSE
  /\ pj_runs' = 0
  /\ r_written' = {}
  /\ snap' = NoSnap
  /\ crash_batch' = IF mode = "run" /\ commit_written /\ ~ home_issued
                       /\ ~ in_fsync /\ jpc \in {"apply", "iowait"}
                    THEN [valid |-> TRUE, blocks |-> prune_trans]
                    ELSE NoBatch
  /\ UNCHANGED <<tsc, jdisk, disk, j_at_scan>>
  /\ UNCHANGED <<rvars, xvars>>

\* process_journal, lines 1289-1350: the journal file is read
process_journal_scan ==
  /\ mode = "boot" /\ rpc = "scan"
  /\ LET r == pj_loop(jdisk, 0, 0, <<>>, <<>>)
     IN /\ r_trans' = r.trans
        /\ jrnl_error' = r.err
  /\ j_at_scan' = jdisk
  /\ r_written' = {}
  /\ rpc' = "reset"
  /\ UNCHANGED <<mode, crashes, tsc, transaction_log, offset, jpc, flushLocals,
                 home_pending, jdisk, disk, pj_runs, snap, histVars>>
  /\ UNCHANGED <<rvars, xvars>>

\* process_journal with a slip: the zero header is written where the scan
\* stopped, not at offset 0
process_journal_reset_at_scan_end ==
  /\ mode = "boot" /\ rpc = "reset"
  /\ jdisk' = IF ScanEnd(j_at_scan) \in Slots
              THEN [jdisk EXCEPT ![ScanEnd(j_at_scan)] = ZeroRec]
              ELSE jdisk
  /\ offset' = 0
  /\ rpc' = "write"
  /\ UNCHANGED <<mode, crashes, tsc, transaction_log, jpc, flushLocals,
                 home_pending, disk, r_trans, jrnl_error, pj_runs, j_at_scan,
                 r_written, snap, histVars>>
  /\ UNCHANGED <<rvars, xvars>>

\* process_journal, lines 1352-1353: reset_journal
process_journal_reset ==
  /\ mode = "boot" /\ rpc = "reset"
  /\ jdisk' = reset_journal(jdisk)
  /\ offset' = 0
  /\ rpc' = "write"
  /\ UNCHANGED <<mode, crashes, tsc, transaction_log, jpc, flushLocals,
                 home_pending, disk, r_trans, jrnl_error, pj_runs, j_at_scan,
                 r_written, snap, histVars>>
  /\ UNCHANGED <<rvars, xvars>>

\* process_journal, lines 1355-1356: write_to_disk_update_bufcache writes
\* the blocks of trans to their home locations, when there was no error
process_journal_write ==
  /\ mode = "boot" /\ rpc = "write"
  /\ ~ jrnl_error /\ r_trans # <<>>
  /\ disk' = [disk EXCEPT ![Head(r_trans).bno] = Head(r_trans).data]
  /\ r_written' = r_written \cup {Head(r_trans)}
  /\ r_trans' = Tail(r_trans)
  /\ UNCHANGED <<mode, crashes, tsc, transaction_log, offset, jpc, flushLocals,
                 home_pending, jdisk, rpc, jrnl_error, pj_runs, j_at_scan,
                 snap, histVars>>
  /\ UNCHANGED <<rvars, xvars>>

\* process_journal returns
process_journal_done ==
  /\ mode = "boot" /\ rpc = "write"
  /\ jrnl_error \/ r_trans = <<>>
  /\ rpc' = "done"
  /\ pj_runs' = pj_runs + 1
  /\ snap' = IF pj_runs = 0
              THEN [disk |-> disk, jdisk |-> jdisk, wrote |-> r_written]
              ELSE snap
  /\ UNCHANGED <<mode, crashes, tsc, transaction_log, offset, jpc, flushLocals,
                 home_pending, jdisk, disk, r_trans, jrnl_error, j_at_scan,
                 r_written, histVars>>
  /\ UNCHANGED <<rvars, xvars>>

\* process_journal is run a second time in a row
process_journal_again ==
  /\ mode = "boot" /\ rpc = "done" /\ pj_runs = 1
  /\ rpc' = "scan"
  /\ UNCHANGED <<mode, crashes, tsc, transaction_log, offset, jpc, flushLocals,
                 home_pending, jdisk, disk, r_trans, jrnl_error, pj_runs,
                 j_at_scan, r_written, snap, histVars>>
  /\ UNCHANGED <<rvars, xvars>>

\* initfs goes on after process_journal; the kernel is up
initfs_done ==
  /\ mode = "boot" /\ rpc = "done"
  /\ mode' = "run"
  /\ rpc' = "off"
  /\ crash_batch' = NoBatch
  /\ UNCHANGED <<crashes, tsc, transaction_log, offset, jpc, flushLocals,
                 home_pending, jdisk, disk, r_trans, jrnl_error, pj_runs,
                 j_at_scan, r_written, snap, commit_written, ideflushed,
                 home_issued, batch_all, flush_log, n_cycles>>
  /\ UNCHANGED <<rvars, xvars>>

JournalNext ==
  \/ add_to_journal_locked
  \/ flush_journal_empty
  \/ flush_journal_begin
  \/ flush_loop_fits
  \/ flush_loop_nofit
  \/ flush_loop_end
  \/ add_fsync_to_journal
  \/ epilog_write_to_disk
  \/ epilog_commit_header
  \/ epilog_commit_write
  \/ apply_trans_on_disk
  \/ writeback_async
  \/ ideflush
  \/ reset_and_retry
  \/ reset_and_clear
  \/ fsync_reset
  \/ journal_unlock
  \/ crash
  \/ process_journal_scan
  \/ process_journal_reset
  \/ process_journal_write
  \/ process_journal_done
  \/ process_journal_again
  \/ initfs_done

SpecJournal == JournalInit /\ [][JournalNext]_vars

\* the steps of the thread that is inside flush_journal_locked or
\* add_fsync_to_journal: it holds the journal lock and is never blocked, so
\* the scheduler lets it run
FlushStep ==
  \/ flush_loop_fits
  \/ flush_loop_nofit
  \/ flush_loop_end
  \/ epilog_write_to_disk
  \/ epilog_commit_header
  \/ epilog_commit_write
  \/ apply_trans_on_disk
  \/ writeback_async
  \/ ideflush
  \/ reset_and_retry
  \/ reset_and_clear
  \/ fsync_reset

SpecJournalLive == JournalInit /\ [][JournalNext]_vars /\ WF_vars(FlushStep)

(* ---------------- resolver: oplogs and operation effects ---------------- *)
Last(s) == s[Len(s)]
Pop(s) == SubSeq(s, 1, Len(s) - 1)

\* the operations of an oplog gathered or not
AllOps(log) == Range(log.vec) \cup Range(log.buf)

\* mfs_logical_log::synchronize_upto_tsc(max_tsc): the logged operations
\* with a timestamp <= max_tsc are appended to operation_vec in timestamp
\* order (the loggers' buffer is in timestamp order here)
synchronize_upto_tsc(log, max_tsc) ==
  [vec |-> log.vec \o SelectSeq(log.buf, LAMBDA o : o.ts <= max_tsc),
   buf |-> SelectSeq(log.buf, LAMBDA o : o.ts > max_tsc)]

\* mfs_logical_log::add_operation
add_operation(logs, m, op) == [logs EXCEPT ![m].buf = Append(@, op)]

\* the metadata state the operations' apply() methods read and write
Meta ==
  [inum |-> mnum_to_inum, bufdir |-> bufdir, nlink |-> nlink,
   has_log |-> has_log, oplog |-> oplog, lock |-> lock, panic |-> panicked,
   ubl |-> unbound_link]

SetMeta(S) ==
  /\ mnum_to_inum' = S.inum
  /\ bufdir' = S.bufdir
  /\ nlink' = S.nlink
  /\ has_log' = S.has_log
  /\ oplog' = S.oplog
  /\ lock' = S.lock
  /\ panicked' = S.panic
  /\ unbound_link' = S.ubl

Panic(S, why) == [S EXCEPT !.panic = IF @ = "" THEN why ELSE @]

\* unlink_old_inode's test 'm && m->get_consistent() > 1': the mnode is
\* still linked in the in-memory namespace or open (being fsynced)
InUse(c) ==
  \/ \E d \in Dirs : <<d, c>> \in memdir
  \/ \E t \in Threads : tpc[t] # "idle" /\ fs_mnum[t] = c

\* create_file_dir_if_new: alloc_inode_for_mnode binds the mnode (and, for
\* a directory, its parent) to an inode unless it has one
create_file_dir_if_new(S, mnum, parent_mnum, type) ==
  LET S1 == IF type = "dir" /\ parent_mnum \notin S.inum
            THEN [S EXCEPT !.inum = @ \cup {parent_mnum}]
            ELSE S
  IN [S1 EXCEPT !.inum = @ \cup {mnum}]

\* delete_old_inode: the bindings, the oplog and the mnode lock are freed
delete_old_inode(S, mfile_mnum) ==
  IF mfile_mnum \notin S.inum
  THEN Panic(S, "delete_old_inode: Inode mapping does not exist")
  ELSE LET S1 == [S EXCEPT !.inum = @ \ {mfile_mnum},
                           !.has_log = @ \ {mfile_mnum},
                           !.oplog[mfile_mnum] = EmptyLog]
       IN IF S.lock[mfile_mnum] # "free"
          THEN Panic(S1, "oplog freed while locked")
          ELSE S1

\* unlink_old_inode: the directory entry is removed if it is on disk; the
\* inode is deleted when that was its last link and the mnode is gone
unlink_old_inode(S, mdir_mnum, c, inuse) ==
  IF mdir_mnum \notin S.inum
  THEN Panic(S, "unlink_old_inode: Inode mapping does not exist")
  ELSE IF <<mdir_mnum, c>> \notin S.bufdir THEN S
  ELSE LET S1 == [S EXCEPT !.bufdir = @ \ {<<mdir_mnum, c>>},
                           !.nlink[c] = @ - 1]
       IN IF S1.nlink[c] = 0 /\ ~ inuse
          THEN delete_old_inode(S1, c)
          ELSE S1

\* create_directory_entry: asserts that the child has an inode, then adds
\* the directory entry unless it is there
create_directory_entry(S, mdir_mnum, dirent_mnum, kind) ==
  IF mdir_mnum \notin S.inum
  THEN Panic(S, "create_directory_entry: Inode mapping does not exist")
  ELSE IF dirent_mnum \notin S.inum
  THEN [Panic(S, "assert(inum_lookup(dirent_mnum))")
          EXCEPT !.ubl = @ \/ (kind = "link")]
  ELSE IF <<mdir_mnum, dirent_mnum>> \in S.bufdir THEN S
  ELSE [S EXCEPT !.bufdir = @ \cup {<<mdir_mnum, dirent_mnum>>},
                 !.nlink[dirent_mnum] = @ + 1]

\* mfs_rename_link
mfs_rename_link(S, op) ==
  LET S1 == create_directory_entry(S, op.dst, op.mnum, op.kind)
  IN IF op.type = "dir" /\ op.dst # op.src
        /\ ~ ({op.mnum, op.src, op.dst} \subseteq S1.inum)
     THEN Panic(S1, "mfs_rename_link: assert(inum_lookup)")
     ELSE S1

\* op->apply(tr) for each operation variant
apply(S, op, inuse) ==
  CASE op.kind = "create" ->
         create_file_dir_if_new(S, op.mnum, op.parent, op.type)
    [] op.kind = "link" ->
         create_directory_entry(S, op.parent, op.mnum, op.kind)
    [] op.kind = "unlink" -> unlink_old_inode(S, op.parent, op.mnum, inuse)
    [] op.kind = "rename_link" -> mfs_rename_link(S, op)
    [] op.kind = "rename_unlink" -> unlink_old_inode(S, op.src, op.mnum, inuse)
    [] OTHER -> S

\* a transaction of the resolver: the operations applied into it
OpTransaction(t, ops) == [ts |-> t, blocks |-> <<>>, ops |-> ops]

(* -------------------- resolver: the logging system calls ---------------- *)
\* a system call creates the mnode c of type ty in directory p: the create
\* is logged in c's oplog, the link in p's
sys_create(c, p, ty) ==
  /\ panicked = "" /\ c \in Files \ born /\ tsc + 2 <= MaxOpTs
  /\ lock[p] = "free"
  /\ oplog' = add_operation(
                add_operation([oplog EXCEPT ![c] = EmptyLog], c,
                              Op("create", tsc + 1, c, p, 0, 0, ty)),
                p, Op("link", tsc + 2, c, p, 0, 0, ty))
  /\ has_log' = has_log \cup {c}
  /\ tsc' = tsc + 2
  /\ born' = born \cup {c}
  /\ ftype' = [ftype EXCEPT ![c] = ty]
  /\ memdir' = memdir \cup {<<p, c>>}
  /\ UNCHANGED <<jrest, transaction_log, thrVars, lock, mnum_to_inum, bufdir,
                 nlink, panicked, ghostVars>>
  /\ UNCHANGED xvars

\* link(2): a second name for the file c, in directory p
sys_link(c, p) ==
  /\ panicked = "" /\ tsc + 1 <= MaxOpTs
  /\ c \in born /\ ftype[c] = "file" /\ <<p, c>> \notin memdir
  /\ \E d \in Dirs : <<d, c>> \in memdir
  /\ lock[p] = "free"
  /\ oplog' = add_operation(oplog, p, Op("link", tsc + 1, c, p, 0, 0, ftype[c]))
  /\ tsc' = tsc + 1
  /\ memdir' = memdir \cup {<<p, c>>}
  /\ UNCHANGED <<jrest, transaction_log, thrVars, born, ftype, has_log, lock,
                 mnum_to_inum, bufdir, nlink, panicked, ghostVars>>
  /\ UNCHANGED xvars

\* unlink(2) / rmdir(2): the name of c in directory p is removed
sys_unlink(c, p) ==
  /\ panicked = "" /\ tsc + 1 <= MaxOpTs
  /\ <<p, c>> \in memdir
  /\ lock[p] = "free"
  /\ oplog' = add_operation(oplog, p, Op("unlink", tsc + 1, c, p, 0, 0, ftype[c]))
  /\ tsc' = tsc + 1
  /\ memdir' = memdir \ {<<p, c>>}
  /\ UNCHANGED <<jrest, transaction_log, thrVars, born, ftype, has_log, lock,
                 mnum_to_inum, bufdir, nlink, panicked, ghostVars>>
  /\ UNCHANGED xvars

\* rename(2) of c from directory p to directory q: rename_link in q's
\* oplog, rename_unlink in p's, and for a directory a rename_barrier in its
\* own oplog, all with the timestamp of the rename
sys_rename(c, p, q) ==
  /\ panicked = "" /\ tsc + 1 <= MaxOpTs
  /\ <<p, c>> \in memdir /\ q \in Dirs /\ q # p /\ <<q, c>> \notin memdir
  /\ lock[p] = "free" /\ lock[q] = "free"
  /\ ftype[c] = "dir" => (c \in has_log /\ lock[c] = "free")
  /\ LET l1 == add_operation(oplog, q,
                  Op("rename_link", tsc + 1, c, 0, p, q, ftype[c]))
         l2 == add_operation(l1, p,
                  Op("rename_unlink", tsc + 1, c, 0, p, q, ftype[c]))
     IN oplog' = IF ftype[c] = "dir"
                 THEN add_operation(l2, c,
                        Op("rename_barrier", tsc + 1, c, q, 0, 0, ftype[c]))
                 ELSE l2
  /\ tsc' = tsc + 1
  /\ memdir' = (memdir \ {<<p, c>>}) \cup {<<q, c>>}
  /\ UNCHANGED <<jrest, transaction_log, thrVars, born, ftype, has_log, lock,
                 mnum_to_inum, bufdir, nlink, panicked, ghostVars>>
  /\ UNCHANGED xvars

(* --------------- resolver: process_metadata_log_and_flush --------------- *)
Upd(f, t, v) == [f EXCEPT ![t] = v]

\* the operation at operation_vec.begin() of the oplog thread t has locked
Front(t) == Head(oplog[cur_log[t]].vec)

\* process_ops_from_oplog is in its loop body: 'it != end && count'
InLoop(t) ==
  /\ panicked = "" /\ tpc[t] = "ops"
  /\ oplog[cur_log[t]].vec # <<>> /\ count[t] # 0

\* process_ops_from_oplog returns ret: the guard and mfs_log->lock are
\* released and the driver's switch pops the pending stack on RET_DONE
Return(t, pending, next) ==
  /\ pending_stack' = Upd(pending_stack, t, pending)
  /\ tpc' = Upd(tpc, t, next)
  /\ count' = Upd(count, t, 0)
  /\ process_create' = Upd(process_create, t, FALSE)
  /\ cur_log' = Upd(cur_log, t, 0)

\* sys_fsync calls process_metadata_log_and_flush(max_tsc, m): line 836
fsync_call(t, m) ==
  /\ panicked = "" /\ tpc[t] = "idle" /\ fsyncs < MaxFsyncs
  /\ m \in Dirs \/ \E d \in Dirs : <<d, m>> \in memdir
  /\ fsyncs' = fsyncs + 1
  /\ tpc' = Upd(tpc, t, "loop")
  /\ fs_mnum' = Upd(fs_mnum, t, m)
  /\ fs_tsc' = Upd(fs_tsc, t, tsc)
  /\ pending_stack' = Upd(pending_stack, t,
                          <<[mnum |-> m, max_tsc |-> tsc, count |-> -1]>>)
  /\ target_ops' = Upd(target_ops, t, {o \in AllOps(oplog[m]) : o.ts <= tsc})
  /\ UNCHANGED <<jvars, rename_stack, rename_barrier_stack, count,
                 process_create, cur_log, rm_1, dst_log, rp_tr, memVars,
                 metaVars, flushed, unbound_link, flush_between>>
  /\ UNCHANGED xvars

\* lines 729-730 with a slip: the last gathered operation is left out
initial_count_short(cnt, vec) == IF cnt < 0 THEN Len(vec) - 1 ELSE cnt

\* lines 729-730: count < 0 stands for all the gathered operations
initial_count(cnt, vec) == IF cnt < 0 THEN Len(vec) ELSE cnt

\* lines 838-846 and 720-730: the top of the pending stack is read, its
\* oplog locked and synchronized; an empty operation_vec is RET_DONE
process_begin(t) ==
  /\ panicked = "" /\ tpc[t] = "loop" /\ pending_stack[t] # <<>>
  /\ LET pm == Last(pending_stack[t])
     IN IF pm.mnum \notin has_log
        THEN /\ panicked' = "assert(metadata_log_htab->lookup(pm.mnum))"
             /\ UNCHANGED <<thrVars, oplog, lock>>
        ELSE /\ lock[pm.mnum] = "free"
             /\ panicked' = panicked
             /\ LET log == synchronize_upto_tsc(oplog[pm.mnum], pm.max_tsc)
                IN /\ oplog' = [oplog EXCEPT ![pm.mnum] = log]
                   /\ IF log.vec = <<>>
                      THEN /\ pending_stack' = Upd(pending_stack, t,
                                                   Pop(pending_stack[t]))
                           /\ UNCHANGED <<lock, tpc, count, process_create,
                                          cur_log>>
                      ELSE /\ lock' = [lock EXCEPT ![pm.mnum] = t]
                           /\ tpc' = Upd(tpc, t, "ops")
                           /\ count' = Upd(count, t,
                                           initial_count(pm.count, log.vec))
                           /\ process_create' = Upd(process_create, t,
                                                    pm.count = 1)
                           /\ cur_log' = Upd(cur_log, t, pm.mnum)
                           /\ UNCHANGED pending_stack
             /\ UNCHANGED <<fs_mnum, fs_tsc, rename_stack,
                            rename_barrier_stack, rm_1, dst_log, rp_tr>>
  /\ UNCHANGED <<jvars, memVars, has_log, mnum_to_inum, bufdir, nlink,
                 ghostVars>>
  /\ UNCHANGED xvars

\* lines 734-735 and 822: the loop has ended, RET_DONE
process_ops_done(t) ==
  /\ panicked = "" /\ tpc[t] = "ops"
  /\ oplog[cur_log[t]].vec = <<>> \/ count[t] = 0
  /\ lock' = [lock EXCEPT ![cur_log[t]] = "free"]
  /\ Return(t, Pop(pending_stack[t]), "loop")
  /\ UNCHANGED <<jvars, fs_mnum, fs_tsc, rename_stack, rename_barrier_stack,
                 rm_1, dst_log, rp_tr, memVars, oplog, has_log, mnum_to_inum,
                 bufdir, nlink, panicked, ghostVars>>
  /\ UNCHANGED xvars

\* add_op_to_journal, lines 667-681, adding the transaction whatever
\* skip_add says
add_op_to_journal_always_adds(log, op, ops, skip_add) ==
  Append(log, OpTransaction(op.ts, ops \cup {op}))

\* add_op_to_journal, lines 667-681: the transaction log after op was
\* applied to the transaction that holds the operations ops
add_op_to_journal(log, op, ops, skip_add) ==
  IF skip_add THEN log
  ELSE Append(log, OpTransaction(op.ts, ops \cup {op}))

\* lines 818-819 with a slip: the operation at the back of operation_vec is
\* applied and erased
ApplyFront_takes_back(t) ==
  LET op == Last(oplog[cur_log[t]].vec)
      S == apply(Meta, op, InUse(op.mnum))
  IN /\ SetMeta([S EXCEPT !.oplog[cur_log[t]].vec = Pop(oplog[cur_log[t]].vec)])
     /\ transaction_log' = add_op_to_journal(transaction_log, op, {}, FALSE)

\* the operation at the front is applied in a transaction of its own, the
\* transaction added to the journal and the operation erased: lines 818-819
ApplyFront(t) ==
  LET op == Front(t)
      S == apply(Meta, op, InUse(op.mnum))
  IN /\ SetMeta([S EXCEPT !.oplog[cur_log[t]].vec = Tail(oplog[cur_log[t]].vec)])
     /\ transaction_log' = add_op_to_journal(transaction_log, op, {}, FALSE)

\* lines 737-745: count == 1, only the create of the mnode is processed
process_ops_create(t) ==
  /\ InLoop(t) /\ process_create[t]
  /\ IF Front(t).kind = "create"
     THEN LET op == Front(t)
              S == apply(Meta, op, InUse(op.mnum))
          IN /\ SetMeta([S EXCEPT !.oplog[cur_log[t]].vec = Tail(oplog[cur_log[t]].vec),
                                  !.lock[cur_log[t]] = "free"])
             /\ transaction_log' = add_op_to_journal(transaction_log, op, {}, FALSE)
     ELSE /\ lock' = [lock EXCEPT ![cur_log[t]] = "free"]
          /\ UNCHANGED <<transaction_log, oplog, has_log, mnum_to_inum,
                         bufdir, nlink, panicked, unbound_link>>
  /\ Return(t, Pop(pending_stack[t]), "loop")
  /\ UNCHANGED <<jrest, tsc, fs_mnum, fs_tsc, rename_stack,
                 rename_barrier_stack, rm_1, dst_log, rp_tr, memVars,
                 flushed, target_ops, fsyncs, flush_between>>
  /\ UNCHANGED xvars

\* line 750 with the inode lookup left out: a link never waits for a create
link_never_waits(op, inums) == FALSE

\* line 750: 'link_op && !inum_lookup(link_op->mnode_mnum, &mnode_inum)'
link_needs_create(op, inums) == op.kind = "link" /\ op.mnum \notin inums

\* lines 747-754: a link whose child has no inode: the child's create
\* becomes a dependency, RET_LINK
process_ops_link_dep(t) ==
  /\ InLoop(t) /\ ~ process_create[t]
  /\ link_needs_create(Front(t), mnum_to_inum)
  /\ lock' = [lock EXCEPT ![cur_log[t]] = "free"]
  /\ Return(t, Append(pending_stack[t],
                      [mnum |-> Front(t).mnum, max_tsc |-> Front(t).ts,
                       count |-> 1]), "loop")
  /\ UNCHANGED <<jvars, fs_mnum, fs_tsc, rename_stack, rename_barrier_stack,
                 rm_1, dst_log, rp_tr, memVars, oplog, has_log, mnum_to_inum,
                 bufdir, nlink, panicked, ghostVars>>
  /\ UNCHANGED xvars

\* lines 747-750: a link whose child has an inode goes on to line 818
process_ops_link_check(t) ==
  /\ InLoop(t) /\ ~ process_create[t]
  /\ Front(t).kind = "link"
  /\ ~ link_needs_create(Front(t), mnum_to_inum)
  /\ tpc' = Upd(tpc, t, "link_apply")
  /\ UNCHANGED <<jvars, fs_mnum, fs_tsc, pending_stack, rename_stack,
                 rename_barrier_stack, count, process_create, cur_log, rm_1,
                 dst_log, rp_tr, memVars, metaVars, ghostVars>>
  /\ UNCHANGED xvars

\* lines 818-819 for that link: add_op_to_journal takes the journal lock
\* and applies the link
process_ops_link_apply(t) ==
  /\ panicked = "" /\ tpc[t] = "link_apply"
  /\ ApplyFront(t)
  /\ tpc' = Upd(tpc, t, "ops")
  /\ count' = Upd(count, t, count[t] - 1)
  /\ UNCHANGED <<jrest, tsc, fs_mnum, fs_tsc, pending_stack, rename_stack,
                 rename_barrier_stack, process_create, cur_log, rm_1, dst_log,
                 rp_tr, memVars, flushed, target_ops, fsyncs, flush_between>>
  /\ UNCHANGED xvars

\* lines 756-781 with a slip: every rename barrier is erased as the root's
\* is, with no dependency
process_ops_barrier_no_dependency(t) ==
  /\ InLoop(t) /\ ~ process_create[t]
  /\ Front(t).kind = "rename_barrier"
  /\ oplog' = [oplog EXCEPT ![cur_log[t]].vec = Tail(@)]
  /\ count' = Upd(count, t, count[t] - 1)
  /\ UNCHANGED <<rename_barrier_stack, pending_stack, tpc, lock,
                 process_create, cur_log>>
  /\ UNCHANGED <<jvars, fs_mnum, fs_tsc, rename_stack, rm_1, dst_log, rp_tr,
                 memVars, has_log, mnum_to_inum, bufdir, nlink, panicked,
                 ghostVars>>
  /\ UNCHANGED xvars

\* lines 756-781: a rename barrier
process_ops_barrier(t) ==
  /\ InLoop(t) /\ ~ process_create[t]
  /\ Front(t).kind = "rename_barrier"
  /\ LET op == Front(t)
         m == cur_log[t]
         bs == rename_barrier_stack[t]
     IN IF op.mnum = root_mnum
        THEN /\ oplog' = [oplog EXCEPT ![m].vec = Tail(@)]
             /\ count' = Upd(count, t, count[t] - 1)
             /\ UNCHANGED <<rename_barrier_stack, pending_stack, tpc, lock,
                            process_create, cur_log>>
        ELSE IF bs # <<>> /\ op.mnum = Last(bs).mnum /\ op.ts = Last(bs).ts
        THEN /\ rename_barrier_stack' = Upd(rename_barrier_stack, t, Pop(bs))
             /\ oplog' = [oplog EXCEPT ![m].vec = Tail(@)]
             /\ count' = Upd(count, t, count[t] - 1)
             /\ UNCHANGED <<pending_stack, tpc, lock, process_create, cur_log>>
        ELSE /\ rename_barrier_stack' =
                  Upd(rename_barrier_stack, t,
                      Append(bs, [mnum |-> op.mnum, ts |-> op.ts]))
             /\ lock' = [lock EXCEPT ![m] = "free"]
             /\ Return(t, Append(pending_stack[t],
                                 [mnum |-> op.parent, max_tsc |-> op.ts,
                                  count |-> -1]), "loop")
             /\ UNCHANGED oplog
  /\ UNCHANGED <<jvars, fs_mnum, fs_tsc, rename_stack, rm_1, dst_log, rp_tr,
                 memVars, has_log, mnum_to_inum, bufdir, nlink, panicked,
                 ghostVars>>
  /\ UNCHANGED xvars

\* lines 783-816: a rename sub-operation: its counterpart's directory is
\* pushed; RET_RENAME_PAIR when it completes the pair on the rename stack
process_ops_rename(t) ==
  /\ InLoop(t) /\ ~ process_create[t]
  /\ Front(t).kind \in {"rename_link", "rename_unlink"}
  /\ LET op == Front(t)
         rs == rename_stack[t]
         rename_timestamp == IF rs # <<>> THEN Last(rs).ts ELSE 0
         other == IF op.kind = "rename_link" THEN op.src ELSE op.dst
     IN /\ rename_stack' =
             Upd(rename_stack, t,
                 Append(rs, [src |-> op.src, dst |-> op.dst, ts |-> op.ts]))
        /\ Return(t, Append(pending_stack[t],
                            [mnum |-> other, max_tsc |-> op.ts, count |-> -1]),
                  IF rename_timestamp # 0 /\ op.ts = rename_timestamp
                  THEN "pair" ELSE "loop")
  /\ lock' = [lock EXCEPT ![cur_log[t]] = "free"]
  /\ UNCHANGED <<jvars, fs_mnum, fs_tsc, rename_barrier_stack, rm_1, dst_log,
                 rp_tr, memVars, oplog, has_log, mnum_to_inum, bufdir, nlink,
                 panicked, ghostVars>>
  /\ UNCHANGED xvars

\* lines 818-819: any other operation (create, unlink) is applied
process_ops_apply(t) ==
  /\ InLoop(t) /\ ~ process_create[t]
  /\ Front(t).kind \in {"create", "unlink"}
  /\ ApplyFront(t)
  /\ count' = Upd(count, t, count[t] - 1)
  /\ UNCHANGED <<jrest, tsc, tpc, fs_mnum, fs_tsc, pending_stack, rename_stack,
                 rename_barrier_stack, process_create, cur_log, rm_1, dst_log,
                 rp_tr, memVars, flushed, target_ops, fsyncs, flush_between>>
  /\ UNCHANGED xvars

(* --------------------- resolver: apply_rename_pair ---------------------- *)
\* lines 588-607: the pair is popped off the rename stack and the source
\* directory's oplog locked
pair_lock_src(t) ==
  /\ panicked = "" /\ tpc[t] = "pair"
  /\ LET rs == rename_stack[t]
         r1 == Last(rs)
         r2 == Last(Pop(rs))
     IN IF r1.ts # r2.ts
        THEN /\ panicked' = "assert(rm_1.timestamp == rm_2.timestamp)"
             /\ UNCHANGED <<thrVars, lock>>
        ELSE IF r1.src \notin has_log
        THEN /\ panicked' = "assert(metadata_log_htab->lookup(src_mnum))"
             /\ UNCHANGED <<thrVars, lock>>
        ELSE /\ lock[r1.src] = "free"
             /\ lock' = [lock EXCEPT ![r1.src] = t]
             /\ rename_stack' = Upd(rename_stack, t, Pop(Pop(rs)))
             /\ rm_1' = Upd(rm_1, t, r1)
             /\ tpc' = Upd(tpc, t, "pair_dst")
             /\ panicked' = panicked
             /\ UNCHANGED <<fs_mnum, fs_tsc, pending_stack,
                            rename_barrier_stack, count, process_create,
                            cur_log, dst_log, rp_tr>>
  /\ UNCHANGED <<jvars, memVars, oplog, has_log, mnum_to_inum, bufdir, nlink,
                 ghostVars>>
  /\ UNCHANGED xvars

\* lines 657-664 and 866: the locks are released, the pending stack popped
PairUnlock(t, S) ==
  /\ SetMeta([S EXCEPT !.lock = [m \in Mnums |->
                                   IF S.lock[m] = t THEN "free" ELSE S.lock[m]]])
  /\ pending_stack' = Upd(pending_stack, t, Pop(pending_stack[t]))
  /\ tpc' = Upd(tpc, t, "loop")
  /\ rm_1' = Upd(rm_1, t, NoRm)
  /\ dst_log' = Upd(dst_log, t, 0)
  /\ rp_tr' = Upd(rp_tr, t, {})

\* lines 609-647: the destination's oplog is locked, both oplogs are
\* synchronized and checked, and the rename_link is applied to a new
\* transaction that is not added to the journal yet. With dst_mnum ==
\* src_mnum mfs_log_dst is read uninitialized: any oplog, or a wild pointer.
pair_link(t) ==
  /\ panicked = "" /\ tpc[t] = "pair_dst"
  /\ LET src == rm_1[t].src
         dst == rm_1[t].dst
         ts == rm_1[t].ts
     IN IF dst # src /\ dst \notin has_log
        THEN /\ panicked' = "assert(metadata_log_htab->lookup(dst_mnum))"
             /\ UNCHANGED <<thrVars, transaction_log, oplog, has_log, lock,
                            mnum_to_inum, bufdir, nlink, unbound_link>>
        ELSE \E D \in (IF dst # src THEN {dst} ELSE has_log \cup {0}) :
          IF D = 0
          THEN /\ panicked' = "mfs_log_dst uninitialized"
               /\ UNCHANGED <<thrVars, transaction_log, oplog, has_log, lock,
                              mnum_to_inum, bufdir, nlink, unbound_link>>
          ELSE
            /\ dst # src => lock[dst] = "free"
            /\ LET l1 == [oplog EXCEPT ![src] = synchronize_upto_tsc(@, ts)]
                   l2 == [l1 EXCEPT ![D] = synchronize_upto_tsc(@, ts)]
                   lk == IF dst # src THEN [lock EXCEPT ![dst] = t] ELSE lock
                   S0 == [Meta EXCEPT !.oplog = l2, !.lock = lk]
               IN IF l2[src].vec = <<>> \/ l2[D].vec = <<>>
                  THEN PairUnlock(t, S0) /\ UNCHANGED transaction_log
                  ELSE LET link_op == Head(l2[D].vec)
                           unlink_op == Head(l2[src].vec)
                       IN IF ~ (/\ link_op.kind = "rename_link"
                                /\ unlink_op.kind = "rename_unlink"
                                /\ link_op.ts = unlink_op.ts
                                /\ link_op.ts = ts)
                          THEN PairUnlock(t, S0) /\ UNCHANGED transaction_log
                          ELSE /\ SetMeta(apply(S0, link_op, InUse(link_op.mnum)))
                               /\ transaction_log' =
                                    add_op_to_journal(transaction_log, link_op,
                                                      {}, TRUE)
                               /\ rp_tr' = Upd(rp_tr, t, {link_op})
                               /\ dst_log' = Upd(dst_log, t, D)
                               /\ tpc' = Upd(tpc, t, "pair_unlink")
                               /\ UNCHANGED <<pending_stack, rm_1>>
            /\ UNCHANGED <<fs_mnum, fs_tsc, rename_stack, rename_barrier_stack,
                           count, process_create, cur_log>>
  /\ UNCHANGED <<jrest, tsc, memVars, flushed, target_ops, fsyncs, flush_between>>
  /\ UNCHANGED xvars

\* lines 648-664 and 866: the rename_unlink is applied to the same
\* transaction, the transaction is added to the journal, both sub-operations
\* are erased, the locks released and the pending stack popped
pair_unlink(t) ==
  /\ panicked = "" /\ tpc[t] = "pair_unlink"
  /\ LET src == rm_1[t].src
         D == dst_log[t]
         unlink_op == Head(oplog[src].vec)
         S == apply(Meta, unlink_op, InUse(unlink_op.mnum))
     IN /\ transaction_log' = add_op_to_journal(transaction_log, unlink_op,
                                                rp_tr[t], FALSE)
        /\ PairUnlock(t, [S EXCEPT !.oplog =
                            [[S.oplog EXCEPT ![src].vec = Tail(@)]
                               EXCEPT ![D].vec = Tail(@)]])
  /\ UNCHANGED <<jrest, tsc, fs_mnum, fs_tsc, rename_stack,
                 rename_barrier_stack, count, process_create, cur_log, memVars,
                 flushed, target_ops, fsyncs, flush_between>>
  /\ UNCHANGED xvars

(* ------------------------ resolver: the epilogue ------------------------ *)
\* lines 874-875: the loop has ended and the three stacks must be empty
loop_exit(t) ==
  /\ panicked = "" /\ tpc[t] = "loop" /\ pending_stack[t] = <<>>
  /\ IF rename_stack[t] # <<>> \/ rename_barrier_stack[t] # <<>>
     THEN /\ panicked' = "assert(!rename_stack.size() && !rename_barrier_stack.size())"
          /\ UNCHANGED tpc
     ELSE /\ tpc' = Upd(tpc, t, "flush")
          /\ UNCHANGED panicked
  /\ UNCHANGED <<jvars, fs_mnum, fs_tsc, pending_stack, rename_stack,
                 rename_barrier_stack, count, process_create, cur_log, rm_1,
                 dst_log, rp_tr, memVars, oplog, has_log, lock, mnum_to_inum,
                 bufdir, nlink, ghostVars>>
  /\ UNCHANGED xvars

\* lines 882-883: flush_journal_locked under the journal lock: every
\* transaction of the transaction log is journalled, committed and written
\* to its home locations (SpecJournal takes this step by step)
flush_journal_locked(t) ==
  /\ panicked = "" /\ tpc[t] = "flush"
  /\ flushed' = flushed \cup {transaction_log[i].ops : i \in DOMAIN transaction_log}
  /\ transaction_log' = <<>>
  /\ flush_between' = (flush_between
                         \/ \E u \in Threads \ {t} : tpc[u] = "pair_unlink")
  /\ tpc' = Upd(tpc, t, "returned")
  /\ UNCHANGED <<jrest, tsc, fs_mnum, fs_tsc, pending_stack, rename_stack,
                 rename_barrier_stack, count, process_create, cur_log, rm_1,
                 dst_log, rp_tr, memVars, metaVars, target_ops, unbound_link, fsyncs>>
  /\ UNCHANGED xvars

\* process_metadata_log_and_flush has returned to sys_fsync
fsync_return(t) ==
  /\ panicked = "" /\ tpc[t] = "returned"
  /\ tpc' = Upd(tpc, t, "idle")
  /\ fs_mnum' = Upd(fs_mnum, t, 0)
  /\ fs_tsc' = Upd(fs_tsc, t, 0)
  /\ target_ops' = Upd(target_ops, t, {})
  /\ UNCHANGED <<jvars, pending_stack, rename_stack, rename_barrier_stack,
                 count, process_create, cur_log, rm_1, dst_log, rp_tr, memVars,
                 metaVars, flushed, unbound_link, fsyncs, flush_between>>
  /\ UNCHANGED xvars

ResolverInit ==
  /\ JournalFresh
  /\ OtherBoot
  /\ \E old \in SUBSET Files, ty \in Types : ResolverBoot(old, ty)

ResolverNext ==
  \/ \E c \in Files, p \in Dirs, ty \in Types : sys_create(c, p, ty)
  \/ \E c \in Files, p \in Dirs : sys_link(c, p)
  \/ \E c \in Files, p \in Dirs : sys_unlink(c, p)
  \/ \E c \in Files, p \in Dirs, q \in Dirs : sys_rename(c, p, q)
  \/ \E t \in Threads, m \in Dirs \cup Files : fsync_call(t, m)
  \/ \E t \in Threads : process_begin(t)
  \/ \E t \in Threads : process_ops_done(t)
  \/ \E t \in Threads : process_ops_create(t)
  \/ \E t \in Threads : process_ops_link_dep(t)
  \/ \E t \in Threads : process_ops_link_check(t)
  \/ \E t \in Threads : process_ops_link_apply(t)
  \/ \E t \in Threads : process_ops_barrier(t)
  \/ \E t \in Threads : process_ops_rename(t)
  \/ \E t \in Threads : process_ops_apply(t)
  \/ \E t \in Threads : pair_lock_src(t)
  \/ \E t \in Threads : pair_link(t)
  \/ \E t \in Threads : pair_unlink(t)
  \/ \E t \in Threads : loop_exit(t)
  \/ \E t \in Threads : flush_journal_locked(t)
  \/ \E t \in Threads : fsync_return(t)

SpecResolver == ResolverInit /\ [][ResolverNext]_vars

\* the steps of thread t inside process_metadata_log: a running thread is
\* scheduled again and again, and a spinlock that stays free is acquired
ResolverStep(t) ==
  \/ process_begin(t)
  \/ process_ops_done(t)
  \/ process_ops_create(t)
  \/ process_ops_link_dep(t)
  \/ process_ops_link_check(t)
  \/ process_ops_link_apply(t)
  \/ process_ops_barrier(t)
  \/ process_ops_rename(t)
  \/ process_ops_apply(t)
  \/ pair_lock_src(t)
  \/ pair_link(t)
  \/ pair_unlink(t)
  \/ loop_exit(t)

\* no thread is inside process_metadata_log_and_flush
Quiet == \A t \in Threads : tpc[t] = "idle"

\* the resolver with the logging system calls issued between the fsync
\* calls, not while one runs
ResolverLiveNext ==
  \/ Quiet /\ \E c \in Files, p \in Dirs, ty \in Types : sys_create(c, p, ty)
  \/ Quiet /\ \E c \in Files, p \in Dirs : sys_link(c, p)
  \/ Quiet /\ \E c \in Files, p \in Dirs : sys_unlink(c, p)
  \/ Quiet /\ \E c \in Files, p \in Dirs, q \in Dirs : sys_rename(c, p, q)
  \/ \E t \in Threads, m \in Dirs \cup Files : fsync_call(t, m)
  \/ \E t \in Threads : ResolverStep(t)
  \/ \E t \in Threads : flush_journal_locked(t)
  \/ \E t \in Threads : fsync_return(t)

SpecResolverLive ==
  /\ ResolverInit
  /\ [][ResolverLiveNext]_vars
  /\ \A t \in Threads : WF_vars(ResolverStep(t))


(* ------------- resolver: a rename inside one directory ------------------ *)
\* sys_rename with the source and the destination parent the same directory
\* p: rename_link and rename_unlink are both logged in the oplog of p
sys_rename_same(c, p) ==
  /\ panicked = "" /\ tsc + 1 <= MaxOpTs
  /\ <<p, c>> \in memdir /\ lock[p] = "free"
  /\ ftype[c] = "dir" => (c \in has_log /\ lock[c] = "free")
  /\ LET l1 == add_operation(oplog, p,
                  Op("rename_link", tsc + 1, c, 0, p, p, ftype[c]))
         l2 == add_operation(l1, p,
                  Op("rename_unlink", tsc + 1, c, 0, p, p, ftype[c]))
     IN oplog' = IF ftype[c] = "dir"
                 THEN add_operation(l2, c,
                        Op("rename_barrier", tsc + 1, c, p, 0, 0, ftype[c]))
                 ELSE l2
  /\ tsc' = tsc + 1
  /\ UNCHANGED <<jrest, transaction_log, thrVars, memVars, has_log, lock,
                 mnum_to_inum, bufdir, nlink, panicked, ghostVars>>
  /\ UNCHANGED xvars

\* the pending stack of a thread is followed up to this depth
MaxPending == 4

SameDirNext ==
  \/ \E c \in Files, p \in Dirs, ty \in Types : sys_create(c, p, ty)
  \/ \E c \in Files, p \in Dirs : sys_rename_same(c, p)
  \/ \E t \in Threads, m \in Dirs \cup Files : fsync_call(t, m)
  \/ \E t \in Threads : process_begin(t)
  \/ \E t \in Threads : process_ops_done(t)
  \/ \E t \in Threads : process_ops_barrier(t)
  \/ \E t \in Threads :
       Len(pending_stack[t]) < MaxPending /\ process_ops_rename(t)
  \/ \E t \in Threads : process_ops_apply(t)
  \/ \E t \in Threads : pair_lock_src(t)
  \/ \E t \in Threads : pair_link(t)
  \/ \E t \in Threads : loop_exit(t)
  \/ \E t \in Threads : flush_journal_locked(t)
  \/ \E t \in Threads : fsync_return(t)

SpecSameDir == ResolverInit /\ [][SameDirNext]_vars


(* ---------------------- the free-block allocator ------------------------ *)
\* everything outside the allocator, its file and its transactions
nonAllocVars == <<jvars, rvars, ivars, dvars, svars>>

\* balloc after alloc_block has returned b: a block below sb.size goes to the
\* transaction, sb.size is out of blocks (writei gives up, readi panics)
balloc_return(t, b) ==
  /\ a_bno' = Upd(a_bno, t, b)
  /\ IF a_call[t] = "alloc"
       THEN /\ apc' = Upd(apc, t, "idle")
            /\ a_call' = Upd(a_call, t, "")
            /\ n_alloc' = IF b < sb_size THEN n_alloc + 1 ELSE n_alloc
            /\ got' = IF b < sb_size THEN got \cup {b} ELSE got
            /\ UNCHANGED <<a_tr, a_panic>>
       ELSE /\ a_tr' = IF b < sb_size /\ a_tr[t].valid
                         THEN Upd(a_tr, t, add_allocated_block(a_tr[t], b))
                         ELSE a_tr
            /\ apc' = Upd(apc, t, IF b < sb_size THEN "cmpxch" ELSE "ret")
            /\ a_panic' = IF b >= sb_size /\ a_call[t] = "load"
                            THEN "readi: out of blocks" ELSE a_panic
            /\ UNCHANGED <<a_call, n_alloc, got>>

\* alloc_block: takes the freelist_lock; an empty freelist returns sb.size
alloc_lock(t) ==
  /\ a_panic = "" /\ apc[t] = "alloc_lock" /\ freelist_lock = ""
  /\ IF free_bit_freelist = <<>>
       THEN /\ balloc_return(t, sb_size)
            /\ UNCHANGED freelist_lock
       ELSE /\ freelist_lock' = t
            /\ apc' = Upd(apc, t, "alloc_bit")
            /\ UNCHANGED <<a_call, a_bno, a_tr, a_panic, n_alloc, got>>
  /\ UNCHANGED <<free_bit_vector, free_bit_freelist, write_lock, fileVars,
                 flushVars, a_bn, n_trans, n_free, freed_other, nonAllocVars>>

\* alloc_block: it = begin(), takes it->write_lock, asserts and clears is_free
alloc_bit(t) ==
  /\ a_panic = "" /\ apc[t] = "alloc_bit"
  /\ write_lock[Head(free_bit_freelist)] = ""
  /\ LET b == Head(free_bit_freelist) IN
       IF free_bit_vector[b]
         THEN /\ write_lock' = [write_lock EXCEPT ![b] = t]
              /\ free_bit_vector' = [free_bit_vector EXCEPT ![b] = FALSE]
              /\ a_bno' = Upd(a_bno, t, b)
              /\ apc' = Upd(apc, t, "alloc_erase")
              /\ UNCHANGED a_panic
         ELSE /\ a_panic' = "assert(it->is_free == true)"
              /\ UNCHANGED <<write_lock, free_bit_vector, a_bno, apc>>
  /\ UNCHANGED <<free_bit_freelist, freelist_lock, fileVars, flushVars,
                 a_call, a_bn, a_tr, countVars, nonAllocVars>>

\* free_bit_freelist.erase(it), it being begin()
erase(list) == Tail(list)

\* alloc_block with a slip: the block is marked in the on-disk bitmap at once
alloc_erase_marks_disk(t) ==
  /\ a_panic = "" /\ apc[t] = "alloc_erase"
  /\ free_bit_freelist' = Tail(free_bit_freelist)
  /\ write_lock' = [write_lock EXCEPT ![a_bno[t]] = ""]
  /\ freelist_lock' = ""
  /\ bitmap' = [bitmap EXCEPT ![a_bno[t]] = TRUE]
  /\ balloc_return(t, a_bno[t])
  /\ UNCHANGED <<free_bit_vector, addrs, i_size, i_busy, flushVars, a_bn,
                 n_trans, n_free, freed_other, nonAllocVars>>

\* alloc_block: erases it from the freelist, drops both locks, returns bno
alloc_erase(t) ==
  /\ a_panic = "" /\ apc[t] = "alloc_erase"
  /\ free_bit_freelist' = erase(free_bit_freelist)
  /\ write_lock' = [write_lock EXCEPT ![a_bno[t]] = ""]
  /\ freelist_lock' = ""
  /\ balloc_return(t, a_bno[t])
  /\ UNCHANGED <<free_bit_vector, fileVars, flushVars, a_bn, n_trans, n_free,
                 freed_other, nonAllocVars>>

\* free_block: the check of is_free, made without a lock
free_check(t) ==
  /\ a_panic = "" /\ apc[t] = "free_check"
  /\ IF free_bit_vector[a_bno[t]]
       THEN a_panic' = "freeing free block" /\ UNCHANGED apc
       ELSE apc' = Upd(apc, t, "free_set") /\ UNCHANGED a_panic
  /\ UNCHANGED <<allocVars, fileVars, flushVars, a_call, a_bn, a_bno, a_tr,
                 countVars, nonAllocVars>>

\* free_block with a slip: the bit's write_lock is still held when the
\* freelist_lock is taken
free_set_holds_lock(t) ==
  /\ a_panic = "" /\ apc[t] = "free_set"
  /\ write_lock[a_bno[t]] = ""
  /\ write_lock' = [write_lock EXCEPT ![a_bno[t]] = t]
  /\ free_bit_vector' = [free_bit_vector EXCEPT ![a_bno[t]] = TRUE]
  /\ apc' = Upd(apc, t, "free_push")
  /\ UNCHANGED <<free_bit_freelist, freelist_lock, fileVars,
                 flushVars, a_call, a_bn, a_bno, a_tr, a_panic, countVars,
                 nonAllocVars>>

\* (mutant) free_block leaves is_free as it was
free_set_keeps_bit(t) ==
  /\ a_panic = "" /\ apc[t] = "free_set"
  /\ write_lock[a_bno[t]] = ""
  /\ apc' = Upd(apc, t, "free_push")
  /\ UNCHANGED <<allocVars, fileVars, flushVars, a_call, a_bn, a_bno, a_tr,
                 a_panic, countVars, nonAllocVars>>
\* free_block: sets is_free under the bit's write_lock and drops the lock
free_set(t) ==
  /\ a_panic = "" /\ apc[t] = "free_set"
  /\ write_lock[a_bno[t]] = ""
  /\ free_bit_vector' = [free_bit_vector EXCEPT ![a_bno[t]] = TRUE]
  /\ apc' = Upd(apc, t, "free_push")
  /\ UNCHANGED <<free_bit_freelist, freelist_lock, write_lock, fileVars,
                 flushVars, a_call, a_bn, a_bno, a_tr, a_panic, countVars,
                 nonAllocVars>>

\* free_block: pushes the bit to the front of the freelist under the
\* freelist_lock and returns: to bfree in bmap (which records the block in the
\* transaction and retries), to post_process_transaction, or to the caller
free_push(t) ==
  /\ a_panic = "" /\ apc[t] = "free_push"
  /\ freelist_lock = ""
  /\ free_bit_freelist' = <<a_bno[t]>> \o free_bit_freelist
  /\ apc' = Upd(apc, t, CASE a_call[t] = "free" -> "idle"
                          [] a_call[t] = "flush" -> "post"
                          [] OTHER -> "bmap")
  /\ a_call' = IF a_call[t] = "free" THEN Upd(a_call, t, "") ELSE a_call
  /\ a_tr' = IF a_call[t] \in {"sync", "load"} /\ a_tr[t].valid
               THEN Upd(a_tr, t, add_free_block(a_tr[t], a_bno[t]))
               ELSE a_tr
  /\ UNCHANGED <<free_bit_vector, freelist_lock, write_lock, fileVars,
                 flushVars, a_bn, a_bno, a_panic, countVars, nonAllocVars>>

\* a caller of alloc_block
alloc_block_call(t) ==
  /\ a_panic = "" /\ apc[t] = "idle"
  /\ n_alloc + n_free < MaxCalls
  /\ apc' = Upd(apc, t, "alloc_lock")
  /\ a_call' = Upd(a_call, t, "alloc")
  /\ UNCHANGED <<allocVars, fileVars, flushVars, a_bn, a_bno, a_tr, a_panic,
                 countVars, nonAllocVars>>

\* the blocks a caller may free: allocated, and in no call in progress
AtRest(b) ==
  /\ ~ free_bit_vector[b]
  /\ \A u \in Threads : apc[u] # "idle" => a_bno[u] # b

\* a caller of free_block(b) that owns the allocated block b
free_block_call(t, b) ==
  /\ a_panic = "" /\ apc[t] = "idle"
  /\ n_alloc + n_free < MaxCalls
  /\ AtRest(b)
  /\ apc' = Upd(apc, t, "free_check")
  /\ a_call' = Upd(a_call, t, "free")
  /\ a_bno' = Upd(a_bno, t, b)
  /\ n_free' = n_free + 1
  /\ freed_other' = (freed_other \/ b \notin got)
  /\ got' = got \ {b}
  /\ UNCHANGED <<allocVars, fileVars, flushVars, a_bn, a_tr, a_panic, n_trans,
                 n_alloc, nonAllocVars>>

AllocInit ==
  /\ JournalFresh
  /\ ResolverBoot({}, "file")
  /\ \E used \in SUBSET DataBnos : AllocBoot(used)
  /\ InodeBoot({}, {})
  /\ DirBoot({})
  /\ ReclaimBoot

AllocNext ==
  \/ \E t \in Threads : alloc_block_call(t)
  \/ \E t \in Threads, b \in DataBnos : free_block_call(t, b)
  \/ \E t \in Threads : alloc_lock(t)
  \/ \E t \in Threads : alloc_bit(t)
  \/ \E t \in Threads : alloc_erase(t)
  \/ \E t \in Threads : free_check(t)
  \/ \E t \in Threads : free_set(t)
  \/ \E t \in Threads : free_push(t)

SpecAlloc == AllocInit /\ [][AllocNext]_vars


(* ------------- the file, its transactions and their flush --------------- *)
\* balloc_free_on_disk: the blocks in ascending order, each bit set (alloc) or
\* cleared; a bit that already has the new value is a panic
RECURSIVE mark_bits(_, _, _)
mark_bits(r, blocks, alloc) ==
  IF blocks = <<>> \/ r.panic # "" THEN r
  ELSE LET b == Head(blocks) IN
       IF r.bm[b] = alloc
         THEN [r EXCEPT !.panic = IF alloc
                 THEN "balloc_free_on_disk: block already in use"
                 ELSE "balloc_free_on_disk: block already free"]
         ELSE mark_bits([r EXCEPT !.bm[b] = alloc], Tail(blocks), alloc)

balloc_free_on_disk(r, blocks, alloc) ==
  mark_bits(r, SortSeq(blocks, LAMBDA x, y : x < y), alloc)

\* pre_process_transaction: balloc_on_disk of the allocated blocks, then
\* bfree_on_disk of the freed ones
pre_process_transaction(bm, tr) ==
  balloc_free_on_disk(
    balloc_free_on_disk([bm |-> bm, panic |-> ""],
                        tr.allocated_block_list, TRUE),
    tr.free_block_list, FALSE)

\* itrunc(ip, offset, trans): every block from offset on goes through
\* bfree(.., trans, delayed_free = true), which only records it in trans
RECURSIVE itrunc_blocks(_, _)
itrunc_blocks(a, i) ==
  IF i >= NAddrs THEN <<>>
  ELSE (IF a[i] # 0 THEN <<a[i]>> ELSE <<>>) \o itrunc_blocks(a, i + 1)

\* sync_file_page: ilock(ip, WRITELOCK) and writei of block bn with a
\* transaction
sync_file_page(t, bn) ==
  /\ a_panic = "" /\ apc[t] = "idle" /\ i_busy = ""
  /\ n_trans < MaxTrans
  /\ i_busy' = t
  /\ n_trans' = n_trans + 1
  /\ apc' = Upd(apc, t, "bmap")
  /\ a_call' = Upd(a_call, t, "sync")
  /\ a_bn' = Upd(a_bn, t, bn)
  /\ a_tr' = Upd(a_tr, t, EmptyTrans)
  /\ UNCHANGED <<allocVars, bitmap, addrs, i_size, flushVars, a_bno, a_panic,
                 n_alloc, n_free, freed_other, got, nonAllocVars>>

\* load_file_page: readi of block bn, below ip->size, without the inode lock
\* and without a transaction
load_file_page(t, bn) ==
  /\ a_panic = "" /\ apc[t] = "idle"
  /\ bn < i_size
  /\ apc' = Upd(apc, t, "bmap")
  /\ a_call' = Upd(a_call, t, "load")
  /\ a_bn' = Upd(a_bn, t, bn)
  /\ UNCHANGED <<allocVars, fileVars, flushVars, a_bno, a_tr, a_panic,
                 countVars, nonAllocVars>>

\* bmap, retry0: the block of ip->addrs[bn]; none yet calls balloc
bmap(t) ==
  /\ a_panic = "" /\ apc[t] = "bmap"
  /\ apc' = Upd(apc, t, IF addrs[a_bn[t]] = 0 THEN "alloc_lock" ELSE "ret")
  /\ UNCHANGED <<allocVars, fileVars, flushVars, a_call, a_bn, a_bno, a_tr,
                 a_panic, countVars, nonAllocVars>>

\* bmap: cmpxch(&ip->addrs[bn], 0, addr); on failure the new block goes to
\* bfree(ip->dev, addr, trans), which calls free_block at once
bmap_cmpxch(t) ==
  /\ a_panic = "" /\ apc[t] = "cmpxch"
  /\ IF addrs[a_bn[t]] = 0
       THEN /\ addrs' = [addrs EXCEPT ![a_bn[t]] = a_bno[t]]
            /\ apc' = Upd(apc, t, "ret")
       ELSE /\ apc' = Upd(apc, t, "free_check")
            /\ UNCHANGED addrs
  /\ UNCHANGED <<allocVars, bitmap, i_size, i_busy, flushVars, a_call, a_bn,
                 a_bno, a_tr, a_panic, countVars, nonAllocVars>>

\* readi or writei has returned; sync_file_page unlocks the inode and its
\* transaction is added to the journal
file_page_return(t) ==
  /\ a_panic = "" /\ apc[t] = "ret"
  /\ apc' = Upd(apc, t, "idle")
  /\ a_call' = Upd(a_call, t, "")
  /\ a_tr' = Upd(a_tr, t, NoTrans)
  /\ a_bn' = Upd(a_bn, t, 0)
  /\ a_bno' = Upd(a_bno, t, 0)
  /\ IF a_call[t] = "sync"
       THEN /\ i_busy' = ""
            /\ alloc_log' = Append(alloc_log, a_tr[t])
       ELSE UNCHANGED <<i_busy, alloc_log>>
  /\ UNCHANGED <<allocVars, bitmap, addrs, i_size, journal_lock, batch,
                 batch_it, commit_rec, a_panic, countVars, nonAllocVars>>

\* truncate_file: ilock, itrunc(ip, off, tr), iunlock; the transaction is
\* added to the journal
truncate_file(t, off) ==
  /\ a_panic = "" /\ apc[t] = "idle" /\ i_busy = ""
  /\ n_trans < MaxTrans
  /\ i_size > off
  /\ LET freed == itrunc_blocks(addrs, off) IN
       alloc_log' = Append(alloc_log,
                           [EmptyTrans EXCEPT !.free_block_list = freed,
                                              !.delayed = Range(freed)])
  /\ addrs' = [i \in AddrSlots |-> IF i >= off THEN 0 ELSE addrs[i]]
  /\ i_size' = off
  /\ n_trans' = n_trans + 1
  /\ UNCHANGED <<allocVars, bitmap, i_busy, journal_lock, batch, batch_it,
                 commit_rec, callVars, n_alloc, n_free, freed_other, got,
                 nonAllocVars>>

\* update_file_size: update_size(ip, size, tr)
update_file_size(t, size) ==
  /\ a_panic = "" /\ apc[t] = "idle"
  /\ i_size # size
  /\ i_size' = size
  /\ UNCHANGED <<allocVars, bitmap, addrs, i_busy, flushVars, callVars,
                 countVars, nonAllocVars>>

\* flush_journal_locked: pre_process_transaction(*it) for each transaction,
\* in the order of the log
RECURSIVE pre_process_all(_, _)
pre_process_all(r, trs) ==
  IF trs = <<>> \/ r.panic # "" THEN r
  ELSE pre_process_all(pre_process_transaction(r.bm, Head(trs)), Tail(trs))

\* flush_journal_locked: takes the journal's lock and the transaction log and
\* pre-processes the transactions while it writes them to the journal
flush_begin(t) ==
  /\ a_panic = "" /\ apc[t] = "idle" /\ journal_lock = ""
  /\ alloc_log # <<>>
  /\ journal_lock' = t
  /\ batch' = alloc_log
  /\ alloc_log' = <<>>
  /\ LET r == pre_process_all([bm |-> bitmap, panic |-> ""], alloc_log) IN
       bitmap' = r.bm /\ a_panic' = r.panic
  /\ apc' = Upd(apc, t, "epilog")
  /\ a_call' = Upd(a_call, t, "flush")
  /\ UNCHANGED <<allocVars, addrs, i_size, i_busy, batch_it, commit_rec, a_bn,
                 a_bno, a_tr, countVars, nonAllocVars>>

\* write_journal_trans_epilog: the commit record of the batch
flush_epilog(t) ==
  /\ a_panic = "" /\ apc[t] = "epilog"
  /\ commit_rec' = TRUE
  /\ batch_it' = 1
  /\ apc' = Upd(apc, t, "post")
  /\ UNCHANGED <<allocVars, fileVars, alloc_log, journal_lock, batch, a_call,
                 a_bn, a_bno, a_tr, a_panic, countVars, nonAllocVars>>

\* post_process_transaction for each transaction of the batch: free_block for
\* each block of its free_block_list; then the lock is dropped
flush_post_process(t) ==
  /\ a_panic = "" /\ apc[t] = "post"
  /\ IF batch_it > Len(batch)
       THEN /\ journal_lock' = ""
            /\ batch' = <<>>
            /\ batch_it' = 1
            /\ commit_rec' = FALSE
            /\ apc' = Upd(apc, t, "idle")
            /\ a_call' = Upd(a_call, t, "")
            /\ a_bno' = Upd(a_bno, t, 0)
       ELSE IF batch[batch_it].free_block_list = <<>>
         THEN /\ batch_it' = batch_it + 1
              /\ UNCHANGED <<journal_lock, batch, commit_rec, apc, a_call,
                             a_bno>>
         ELSE LET b == Head(batch[batch_it].free_block_list) IN
              /\ batch' = [batch EXCEPT
                             ![batch_it].free_block_list = Tail(@),
                             ![batch_it].delayed = @ \ {b}]
              /\ a_bno' = Upd(a_bno, t, b)
              /\ apc' = Upd(apc, t, "free_check")
              /\ UNCHANGED <<journal_lock, batch_it, commit_rec, a_call>>
  /\ UNCHANGED <<allocVars, fileVars, alloc_log, a_bn, a_tr, a_panic,
                 countVars, nonAllocVars>>

BlocksInit ==
  /\ JournalFresh
  /\ ResolverBoot({}, "file")
  /\ AllocBoot({})
  /\ InodeBoot({}, {})
  /\ DirBoot({})
  /\ ReclaimBoot

BlocksNext ==
  \/ \E t \in Threads, bn \in AddrSlots : sync_file_page(t, bn)
  \/ \E t \in Threads, bn \in AddrSlots : load_file_page(t, bn)
  \/ \E t \in Threads : bmap(t)
  \/ \E t \in Threads : alloc_lock(t)
  \/ \E t \in Threads : alloc_bit(t)
  \/ \E t \in Threads : alloc_erase(t)
  \/ \E t \in Threads : bmap_cmpxch(t)
  \/ \E t \in Threads : free_check(t)
  \/ \E t \in Threads : free_set(t)
  \/ \E t \in Threads : free_push(t)
  \/ \E t \in Threads : file_page_return(t)
  \/ \E t \in Threads, off \in {0} : truncate_file(t, off)
  \/ \E t \in Threads, size \in {NAddrs} : update_file_size(t, size)
  \/ \E t \in Threads : flush_begin(t)
  \/ \E t \in Threads : flush_epilog(t)
  \/ \E t \in Threads : flush_post_process(t)

SpecBlocks == BlocksInit /\ [][BlocksNext]_vars


(* ------------- the inode cache, the inode lock and ialloc ---------------- *)
\* everything outside the inode layer
nonInodeVars == <<jvars, rvars, avars, dvars, svars>>

\* where a call continues: the labels that stand for a call of ilock, of
\* iunlock or for the end of the scope of ip, and the positions themselves
Target(t, label) ==
  LET here == [pc |-> label, mode |-> i_mode[t], lret |-> i_lret[t],
               ret |-> i_ret[t]] IN
  CASE label = "w_lock" ->
         [here EXCEPT !.pc = "ilock", !.mode = TRUE, !.lret = "unlock_end"]
    [] label = "r_lock" ->
         [here EXCEPT !.pc = "ilock", !.mode = FALSE, !.lret = "unlock_end"]
    [] label = "unlock_end" ->
         [here EXCEPT !.pc = "iunlock", !.lret = "call_end"]
    [] label = "call_end" -> [here EXCEPT !.pc = "drop", !.ret = "idle"]
    [] label = "d_lock" ->
         [here EXCEPT !.pc = "ilock", !.mode = TRUE, !.lret = "d_itrunc"]
    [] label = "d_itrunc" ->
         [here EXCEPT !.pc = "iunlock", !.lret = "d_remove1"]
    [] label = "try_unlock" ->
         [here EXCEPT !.pc = "iunlock", !.lret = "ialloc_found"]
    [] OTHER -> here

\* thread t continues at label, the other threads at their position in pcs
Jump(t, label, pcs) ==
  LET g == Target(t, label) IN
  /\ ipc' = [pcs EXCEPT ![t] = g.pc]
  /\ i_mode' = Upd(i_mode, t, g.mode)
  /\ i_lret' = Upd(i_lret, t, g.lret)
  /\ i_ret' = Upd(i_ret, t, g.ret)

ICanCall(t) == ipc[t] = "idle" /\ i_panic = "" /\ n_icalls < MaxICalls
IAt(t, pc) == ipc[t] = pc /\ i_panic = ""

\* the smallest in-memory inode not allocated yet
FreshObj == CHOOSE o \in Objs : ino[o].inum = 0 /\ \A p \in 1..(o - 1) : ino[p].inum # 0

\* cv.wake_all(): every thread sleeping on the condition variable of inode o
\* runs again and re-evaluates the condition of its loop
wake_all(o) ==
  [u \in Threads |->
     IF i_ip[u] = o /\ ipc[u] = "ilock_sleep" THEN "ilock"
     ELSE IF i_ip[u] = o /\ ipc[u] = "iget_sleep" THEN "iget_valid"
     ELSE ipc[u]]

\* create_file_dir_if_new(mnum, parent_mnum, type, tr) for a file: the call
\* starts in alloc_inode_for_mnode
create_call(t, m) ==
  /\ ICanCall(t)
  /\ \A u \in Threads : ~ (i_call[u] = "delete" /\ i_mnum[u] = m)
  /\ ipc' = Upd(ipc, t, "aifm_lock")
  /\ i_call' = Upd(i_call, t, "create")
  /\ i_mnum' = Upd(i_mnum, t, m)
  /\ n_icalls' = n_icalls + 1
  /\ UNCHANGED <<cacheVars, bindVars, i_inum, i_ip, i_mode, i_ret, i_lret,
                 all_scanned, i_panic, i_holds, i_got, nonInodeVars>>

\* get_inode(mnum) of a caller that takes the inode lock: sync_file_page
\* (WRITELOCK) or evict_bufcache (READLOCK)
locker_call(t, m, writer) ==
  /\ ICanCall(t)
  /\ b_mnum_to_inum[m] # 0
  /\ ipc' = Upd(ipc, t, "iget")
  /\ i_call' = Upd(i_call, t, IF writer THEN "sync" ELSE "evict")
  /\ i_mnum' = Upd(i_mnum, t, m)
  /\ i_inum' = Upd(i_inum, t, b_mnum_to_inum[m])
  /\ i_ret' = Upd(i_ret, t, IF writer THEN "w_lock" ELSE "r_lock")
  /\ n_icalls' = n_icalls + 1
  /\ UNCHANGED <<cacheVars, bindVars, i_ip, i_mode, i_lret, all_scanned,
                 i_panic, i_holds, i_got, nonInodeVars>>

\* delete_old_inode(mfile_mnum, tr): get_inode
delete_call(t, m) ==
  /\ ICanCall(t)
  /\ b_mnum_to_inum[m] # 0
  /\ \A u \in Threads : ~ (i_call[u] \in {"create", "delete"} /\ i_mnum[u] = m)
  /\ ipc' = Upd(ipc, t, "iget")
  /\ i_call' = Upd(i_call, t, "delete")
  /\ i_mnum' = Upd(i_mnum, t, m)
  /\ i_inum' = Upd(i_inum, t, b_mnum_to_inum[m])
  /\ i_ret' = Upd(i_ret, t, "d_lock")
  /\ n_icalls' = n_icalls + 1
  /\ UNCHANGED <<cacheVars, bindVars, i_ip, i_mode, i_lret, all_scanned,
                 i_panic, i_holds, i_got, nonInodeVars>>

\* iget, at retry: the lookup in the cache. A hit takes a reference
\* (sref::newref) and drops the one ip held, the inode that lost the race of
\* the insert: its count falls to zero and onzero() finds it not valid. A miss
\* allocates a fresh inode, locked; after a lost race ip is still set, and the
\* thread waits for that inode to become valid.
iget(t) ==
  /\ IAt(t, "iget")
  /\ LET o == ins[i_inum[t]]
         old == i_ip[t] IN
     IF o # 0
       THEN IF old # 0
              THEN /\ i_panic' = "iput not valid"
                   /\ ino' = [ino EXCEPT ![o].ref = @ + 1, ![old].ref = @ - 1]
                   /\ UNCHANGED <<ipc, i_mode, i_lret, i_ret, i_ip, i_got>>
              ELSE /\ ino' = [ino EXCEPT ![o].ref = @ + 1]
                   /\ i_ip' = Upd(i_ip, t, o)
                   /\ IF ino[o].valid
                        THEN /\ Jump(t, i_ret[t], ipc)
                             /\ i_got' = Upd(i_got, t, o)
                        ELSE /\ Jump(t, "iget_valid", ipc)
                             /\ UNCHANGED i_got
                   /\ UNCHANGED i_panic
       ELSE IF old # 0
              THEN /\ Jump(t, "iget_valid", ipc)
                   /\ UNCHANGED <<ino, i_ip, i_panic, i_got>>
              ELSE /\ \E p \in Objs : ino[p].inum = 0
                   /\ ino' = [ino EXCEPT ![FreshObj] =
                                [NoInode EXCEPT !.inum = i_inum[t], !.busy = TRUE,
                                                !.readbusy = 1, !.ref = 1]]
                   /\ i_ip' = Upd(i_ip, t, FreshObj)
                   /\ Jump(t, "iget_insert", ipc)
                   /\ UNCHANGED <<i_panic, i_got>>
  /\ UNCHANGED <<ins, dtype, last_inode, bindVars, i_call, i_mnum, i_inum,
                 all_scanned, i_holds, n_icalls, nonInodeVars>>

\* iget: while (!ip->valid) ip->cv.sleep(&ip->lock)
iget_valid(t) ==
  /\ IAt(t, "iget_valid")
  /\ IF ino[i_ip[t]].valid
       THEN /\ Jump(t, i_ret[t], ipc)
            /\ i_got' = Upd(i_got, t, i_ip[t])
       ELSE /\ Jump(t, "iget_sleep", ipc)
            /\ UNCHANGED i_got
  /\ UNCHANGED <<cacheVars, bindVars, i_call, i_mnum, i_inum, i_ip,
                 all_scanned, i_panic, i_holds, n_icalls, nonInodeVars>>

\* iget: ins->insert() of the fresh inode; an inode of that number is in the
\* cache already: iunlock(ip) and retry
iget_insert(t) ==
  /\ IAt(t, "iget_insert")
  /\ LET o == i_ip[t] IN
     IF ins[i_inum[t]] = 0
       THEN /\ ins' = [ins EXCEPT ![i_inum[t]] = o]
            /\ Jump(t, "iget_init", ipc)
            /\ UNCHANGED ino
       ELSE /\ ino' = [ino EXCEPT ![o].readbusy = @ - 1, ![o].busy = FALSE]
            /\ Jump(t, "iget", ipc)
            /\ UNCHANGED ins
  /\ UNCHANGED <<dtype, last_inode, bindVars, i_call, i_mnum, i_inum, i_ip,
                 all_scanned, i_panic, i_holds, i_got, n_icalls, nonInodeVars>>

\* inode::init(): the fields are read from the dinode, the count is
\* incremented for the mnode (no inode of this model has links), valid is set;
\* iunlock(ip) follows and iget returns
iget_init(t) ==
  /\ IAt(t, "iget_init")
  /\ LET o == i_ip[t] IN
     ino' = [ino EXCEPT ![o].type = dtype[i_inum[t]], ![o].ref = @ + 1,
                        ![o].valid = TRUE]
  /\ ipc' = Upd(ipc, t, "iunlock")
  /\ i_lret' = Upd(i_lret, t, "iget_ret")
  /\ UNCHANGED <<ins, dtype, last_inode, bindVars, i_call, i_mnum, i_inum,
                 i_ip, i_mode, i_ret, all_scanned, i_panic, i_holds, i_got,
                 n_icalls, nonInodeVars>>

\* ilock(ip, writer), under ip->lock: a writer waits for !busy && !readbusy,
\* a reader for !busy; then busy (writer) and readbusy++
ilock(t) ==
  /\ IAt(t, "ilock")
  /\ LET o == i_ip[t]
         w == i_mode[t]
         wait == IF w THEN ino[o].busy \/ ino[o].readbusy # 0 ELSE ino[o].busy IN
     IF wait
       THEN /\ Jump(t, "ilock_sleep", ipc)
            /\ UNCHANGED <<ino, i_holds, i_panic>>
       ELSE /\ ino' = [ino EXCEPT ![o].busy = IF w THEN TRUE ELSE @,
                                  ![o].readbusy = @ + 1]
            /\ i_holds' = Upd(i_holds, t, [o |-> o, w |-> w])
            /\ IF ino[o].valid
                 THEN Jump(t, i_lret[t], ipc) /\ UNCHANGED i_panic
                 ELSE /\ i_panic' = "ilock"
                      /\ UNCHANGED <<ipc, i_mode, i_lret, i_ret>>
  /\ UNCHANGED <<ins, dtype, last_inode, bindVars, i_call, i_mnum, i_inum,
                 i_ip, all_scanned, i_got, n_icalls, nonInodeVars>>

\* iunlock(ip): the test made without ip->lock
iunlock(t) ==
  /\ IAt(t, "iunlock")
  /\ LET o == i_ip[t] IN
     IF ino[o].readbusy = 0 /\ ~ ino[o].busy
       THEN i_panic' = "iunlock" /\ UNCHANGED ipc
       ELSE ipc' = Upd(ipc, t, "iunlock_locked") /\ UNCHANGED i_panic
  /\ UNCHANGED <<cacheVars, bindVars, i_call, i_mnum, i_inum, i_ip, i_mode,
                 i_ret, i_lret, all_scanned, ihistVars, nonInodeVars>>

\* iunlock(ip), under ip->lock: --readbusy, busy = false, cv.wake_all()
iunlock_locked(t) ==
  /\ IAt(t, "iunlock_locked")
  /\ LET o == i_ip[t]
         l == IF i_lret[t] = "iget_ret" THEN i_ret[t] ELSE i_lret[t] IN
     /\ ino' = [ino EXCEPT ![o].readbusy = @ - 1, ![o].busy = FALSE]
     /\ Jump(t, l, wake_all(o))
     /\ i_got' = IF i_lret[t] = "iget_ret" THEN Upd(i_got, t, o) ELSE i_got
  /\ i_holds' = Upd(i_holds, t, NoHold)
  /\ UNCHANGED <<ins, dtype, last_inode, bindVars, i_call, i_mnum, i_inum,
                 i_ip, all_scanned, i_panic, n_icalls, nonInodeVars>>

\* the end of the scope of an sref<inode>: the count is decremented, and the
\* thread that brings it to zero runs onzero()
drop(t) ==
  /\ IAt(t, "drop")
  /\ LET o == i_ip[t] IN
     /\ ino' = [ino EXCEPT ![o].ref = @ - 1]
     /\ IF ino[o].ref = 1
          THEN Jump(t, "onzero", ipc) /\ UNCHANGED <<i_ip, i_call, i_mnum>>
          ELSE /\ Jump(t, i_ret[t], ipc)
               /\ i_ip' = Upd(i_ip, t, 0)
               /\ i_call' = IF i_ret[t] = "idle" THEN Upd(i_call, t, "") ELSE i_call
               /\ i_mnum' = IF i_ret[t] = "idle" THEN Upd(i_mnum, t, 0) ELSE i_mnum
  /\ i_got' = Upd(i_got, t, 0)
  /\ UNCHANGED <<ins, dtype, last_inode, bindVars, i_inum, all_scanned,
                 i_panic, i_holds, n_icalls, nonInodeVars>>

\* inode::onzero(), under the inode's lock
onzero(t) ==
  /\ IAt(t, "onzero")
  /\ LET o == i_ip[t] IN
     IF ino[o].busy \/ ino[o].readbusy # 0
       THEN i_panic' = "iput busy" /\ UNCHANGED <<ino, ipc>>
       ELSE IF ~ ino[o].valid
         THEN i_panic' = "iput not valid" /\ UNCHANGED <<ino, ipc>>
         ELSE /\ ino' = [ino EXCEPT ![o].busy = TRUE, ![o].readbusy = @ + 1]
              /\ ipc' = Upd(ipc, t, "onzero_remove")
              /\ UNCHANGED i_panic
  /\ UNCHANGED <<ins, dtype, last_inode, bindVars, i_call, i_mnum, i_inum,
                 i_ip, i_mode, i_ret, i_lret, all_scanned, ihistVars,
                 nonInodeVars>>

\* inode::onzero(): ins->remove(make_pair(dev, inum)); gc_delayed(ip)
onzero_remove(t) ==
  /\ IAt(t, "onzero_remove")
  /\ ins' = [ins EXCEPT ![ino[i_ip[t]].inum] = 0]
  /\ Jump(t, i_ret[t], ipc)
  /\ i_ip' = Upd(i_ip, t, 0)
  /\ i_call' = IF i_ret[t] = "idle" THEN Upd(i_call, t, "") ELSE i_call
  /\ i_mnum' = IF i_ret[t] = "idle" THEN Upd(i_mnum, t, 0) ELSE i_mnum
  /\ UNCHANGED <<ino, dtype, last_inode, bindVars, i_inum, all_scanned,
                 i_panic, ihistVars, nonInodeVars>>

\* alloc_inode_for_mnode: the mnode's sleeplock
aifm_lock(t) ==
  /\ IAt(t, "aifm_lock")
  /\ mnode_lock[i_mnum[t]] = ""
  /\ mnode_lock' = Upd(mnode_lock, i_mnum[t], t)
  /\ ipc' = Upd(ipc, t, "aifm_lookup")
  /\ UNCHANGED <<cacheVars, b_mnum_to_inum, inum_to_mnum, next_mnum, i_call,
                 i_mnum, i_inum, i_ip, i_mode, i_ret, i_lret, all_scanned,
                 i_panic, ihistVars, nonInodeVars>>

\* alloc_inode_for_mnode: inum_lookup(mnum); a bound mnode gets iget(1, inum),
\* an unbound one ialloc(1, type), whose scan starts after last_inode
aifm_lookup(t) ==
  /\ IAt(t, "aifm_lookup")
  /\ IF b_mnum_to_inum[i_mnum[t]] # 0
       THEN /\ i_inum' = Upd(i_inum, t, b_mnum_to_inum[i_mnum[t]])
            /\ i_ret' = Upd(i_ret, t, "aifm_unlock")
            /\ ipc' = Upd(ipc, t, "iget")
            /\ UNCHANGED all_scanned
       ELSE /\ i_inum' = Upd(i_inum, t, (last_inode[t] + 1) % ninodes)
            /\ all_scanned' = Upd(all_scanned, t, FALSE)
            /\ ipc' = Upd(ipc, t, "ialloc")
            /\ UNCHANGED i_ret
  /\ UNCHANGED <<cacheVars, bindVars, i_call, i_mnum, i_ip, i_mode, i_lret,
                 i_panic, ihistVars, nonInodeVars>>

\* ialloc: the head of the loop. Past the last inode the scan is over: ialloc
\* returns an empty sref and alloc_inode_for_mnode dereferences it
ialloc(t) ==
  /\ IAt(t, "ialloc")
  /\ IF i_inum[t] >= ninodes
       THEN i_panic' = "ialloc: 0 inodes" /\ UNCHANGED <<ipc, i_inum, i_ret>>
       ELSE IF i_inum[t] = 0
         THEN /\ i_inum' = Upd(i_inum, t, 1)
              /\ UNCHANGED <<ipc, i_ret, i_panic>>
         ELSE /\ ipc' = Upd(ipc, t, "iget")
              /\ i_ret' = Upd(i_ret, t, "try_ialloc")
              /\ UNCHANGED <<i_inum, i_panic>>
  /\ UNCHANGED <<cacheVars, bindVars, i_call, i_mnum, i_ip, i_mode, i_lret,
                 all_scanned, ihistVars, nonInodeVars>>

\* try_ialloc: ip->type || !cmpxch(&ip->type, 0, type); the inode that is
\* taken is locked for write
try_ialloc(t) ==
  /\ IAt(t, "try_ialloc")
  /\ LET o == i_ip[t] IN
     IF ino[o].type # 0
       THEN /\ ipc' = Upd(ipc, t, "drop")
            /\ i_ret' = Upd(i_ret, t, "ialloc_next")
            /\ UNCHANGED <<ino, i_mode, i_lret>>
       ELSE /\ ino' = [ino EXCEPT ![o].type = T_FILE]
            /\ ipc' = Upd(ipc, t, "ilock")
            /\ i_mode' = Upd(i_mode, t, TRUE)
            /\ i_lret' = Upd(i_lret, t, "try_unlock")
            /\ UNCHANGED i_ret
  /\ UNCHANGED <<ins, dtype, last_inode, bindVars, i_call, i_mnum, i_inum,
                 i_ip, all_scanned, i_panic, ihistVars, nonInodeVars>>

\* ialloc: the end of the loop body after try_ialloc returned no inode
ialloc_next(t) ==
  /\ IAt(t, "ialloc_next")
  /\ IF i_inum[t] = ninodes - 1 /\ ~ all_scanned[t]
       THEN /\ i_inum' = Upd(i_inum, t, 1)
            /\ all_scanned' = Upd(all_scanned, t, TRUE)
       ELSE /\ i_inum' = Upd(i_inum, t, i_inum[t] + 1)
            /\ UNCHANGED all_scanned
  /\ ipc' = Upd(ipc, t, "ialloc")
  /\ UNCHANGED <<cacheVars, bindVars, i_call, i_mnum, i_ip, i_mode, i_ret,
                 i_lret, i_panic, ihistVars, nonInodeVars>>

\* ialloc returns ip: last_inode[myid()] = inum; alloc_inode_for_mnode then
\* inserts (ip->inum, mnum) into inum_to_mnum; an insert of a key that is
\* present fails
ialloc_found(t) ==
  /\ IAt(t, "ialloc_found")
  /\ last_inode' = Upd(last_inode, t, i_inum[t])
  /\ inum_to_mnum' = IF inum_to_mnum[i_inum[t]] = 0
                       THEN Upd(inum_to_mnum, i_inum[t], i_mnum[t])
                       ELSE inum_to_mnum
  /\ ipc' = Upd(ipc, t, "aifm_insert")
  /\ UNCHANGED <<ins, ino, dtype, mnode_lock, b_mnum_to_inum, next_mnum,
                 i_call, i_mnum, i_inum, i_ip, i_mode, i_ret, i_lret,
                 all_scanned, i_panic, ihistVars, nonInodeVars>>

\* alloc_inode_for_mnode: mnum_to_inum->insert(mnum, ip->inum)
aifm_insert(t) ==
  /\ IAt(t, "aifm_insert")
  /\ b_mnum_to_inum' = IF b_mnum_to_inum[i_mnum[t]] = 0
                         THEN Upd(b_mnum_to_inum, i_mnum[t], i_inum[t])
                         ELSE b_mnum_to_inum
  /\ ipc' = Upd(ipc, t, "aifm_unlock")
  /\ UNCHANGED <<cacheVars, mnode_lock, inum_to_mnum, next_mnum, i_call,
                 i_mnum, i_inum, i_ip, i_mode, i_ret, i_lret, all_scanned,
                 i_panic, ihistVars, nonInodeVars>>

\* alloc_inode_for_mnode returns (the lock guard releases the sleeplock);
\* create_file_dir_if_new: iupdate(i, tr), then iunlock(i)
aifm_unlock(t) ==
  /\ IAt(t, "aifm_unlock")
  /\ mnode_lock' = Upd(mnode_lock, i_mnum[t], "")
  /\ dtype' = Upd(dtype, i_inum[t], ino[i_ip[t]].type)
  /\ Jump(t, "unlock_end", ipc)
  /\ UNCHANGED <<ins, ino, last_inode, b_mnum_to_inum, inum_to_mnum,
                 next_mnum, i_call, i_mnum, i_inum, i_ip, all_scanned,
                 i_panic, ihistVars, nonInodeVars>>

\* delete_old_inode: mnum_to_inum->remove(mfile_mnum)
d_remove1(t) ==
  /\ IAt(t, "d_remove1")
  /\ b_mnum_to_inum' = Upd(b_mnum_to_inum, i_mnum[t], 0)
  /\ ipc' = Upd(ipc, t, "d_remove2")
  /\ UNCHANGED <<cacheVars, mnode_lock, inum_to_mnum, next_mnum, i_call,
                 i_mnum, i_inum, i_ip, i_mode, i_ret, i_lret, all_scanned,
                 i_panic, ihistVars, nonInodeVars>>

\* delete_old_inode: inum_to_mnum->remove(ip->inum); free_inode: ilock
d_remove2(t) ==
  /\ IAt(t, "d_remove2")
  /\ inum_to_mnum' = Upd(inum_to_mnum, ino[i_ip[t]].inum, 0)
  /\ ipc' = Upd(ipc, t, "ilock")
  /\ i_mode' = Upd(i_mode, t, TRUE)
  /\ i_lret' = Upd(i_lret, t, "free_inode")
  /\ UNCHANGED <<cacheVars, mnode_lock, b_mnum_to_inum, next_mnum, i_call,
                 i_mnum, i_inum, i_ip, i_ret, all_scanned, i_panic, ihistVars,
                 nonInodeVars>>

\* free_inode, the inode locked: type = 0, iupdate, ip->dec(); a count that
\* reaches zero here runs onzero() on the busy inode
free_inode(t) ==
  /\ IAt(t, "free_inode")
  /\ LET o == i_ip[t] IN
     /\ ino' = [ino EXCEPT ![o].type = 0, ![o].ref = @ - 1]
     /\ dtype' = Upd(dtype, ino[o].inum, 0)
     /\ IF ino[o].ref = 1
          THEN /\ i_panic' = "iput busy"
               /\ UNCHANGED <<ipc, i_mode, i_lret, i_ret>>
          ELSE /\ Jump(t, "unlock_end", ipc)
               /\ UNCHANGED i_panic
  /\ UNCHANGED <<ins, last_inode, bindVars, i_call, i_mnum, i_inum, i_ip,
                 all_scanned, ihistVars, nonInodeVars>>

\* load_dir_entry(inum, parent) for an entry of a directory on the disk:
\* mnode_lookup(inum) finds no mnode; iget(1, inum)
load_dir_entry(t, i) ==
  /\ ICanCall(t)
  /\ dtype[i] # 0
  /\ inum_to_mnum[i] = 0
  /\ next_mnum + Cardinality({u \in Threads : i_call[u] = "load"}) <= MaxMnum
  /\ ipc' = Upd(ipc, t, "iget")
  /\ i_ret' = Upd(i_ret, t, "mnode_alloc")
  /\ i_call' = Upd(i_call, t, "load")
  /\ i_inum' = Upd(i_inum, t, i)
  /\ n_icalls' = n_icalls + 1
  /\ UNCHANGED <<cacheVars, bindVars, i_mnum, i_ip, i_mode, i_lret,
                 all_scanned, i_panic, i_holds, i_got, nonInodeVars>>

\* load_dir_entry: the type of the inode; mnode_alloc: root_fs->alloc(mtype),
\* inum_to_mnum->insert(inum, mnum)
mnode_alloc(t) ==
  /\ IAt(t, "mnode_alloc")
  /\ IF ino[i_ip[t]].type = 0
       THEN /\ Jump(t, "call_end", ipc)
            /\ UNCHANGED <<next_mnum, i_mnum, inum_to_mnum>>
       ELSE /\ next_mnum' = next_mnum + 1
            /\ i_mnum' = Upd(i_mnum, t, next_mnum)
            /\ inum_to_mnum' = IF inum_to_mnum[i_inum[t]] = 0
                                 THEN Upd(inum_to_mnum, i_inum[t], next_mnum)
                                 ELSE inum_to_mnum
            /\ Jump(t, "mnode_insert", ipc)
  /\ UNCHANGED <<cacheVars, mnode_lock, b_mnum_to_inum, i_call, i_inum, i_ip,
                 all_scanned, i_panic, ihistVars, nonInodeVars>>

\* mnode_alloc: mnum_to_inum->insert(mnum, inum); load_dir_entry returns
mnode_insert(t) ==
  /\ IAt(t, "mnode_insert")
  /\ b_mnum_to_inum' = IF b_mnum_to_inum[i_mnum[t]] = 0
                         THEN Upd(b_mnum_to_inum, i_mnum[t], i_inum[t])
                         ELSE b_mnum_to_inum
  /\ Jump(t, "call_end", ipc)
  /\ UNCHANGED <<cacheVars, mnode_lock, inum_to_mnum, next_mnum, i_call,
                 i_mnum, i_inum, i_ip, all_scanned, i_panic, ihistVars,
                 nonInodeVars>>

InodeInit ==
  /\ JournalFresh
  /\ ResolverBoot({}, "file")
  /\ AllocBoot({})
  /\ \E old \in {{}, {1}}, unloaded \in {{}, {2}} : InodeBoot(old, unloaded)
  /\ DirBoot({})
  /\ ReclaimBoot

InodeNext ==
  \/ \E t \in Threads, m \in 1..NUserMnodes : create_call(t, m)
  \/ \E t \in Threads, m \in IMnums, w \in BOOLEAN : locker_call(t, m, w)
  \/ \E t \in Threads, m \in IMnums : delete_call(t, m)
  \/ \E t \in Threads, i \in INums : load_dir_entry(t, i)
  \/ \E t \in Threads : iget(t)
  \/ \E t \in Threads : iget_valid(t)
  \/ \E t \in Threads : iget_insert(t)
  \/ \E t \in Threads : iget_init(t)
  \/ \E t \in Threads : ilock(t)
  \/ \E t \in Threads : iunlock(t)
  \/ \E t \in Threads : iunlock_locked(t)
  \/ \E t \in Threads : drop(t)
  \/ \E t \in Threads : onzero(t)
  \/ \E t \in Threads : onzero_remove(t)
  \/ \E t \in Threads : aifm_lock(t)
  \/ \E t \in Threads : aifm_lookup(t)
  \/ \E t \in Threads : ialloc(t)
  \/ \E t \in Threads : try_ialloc(t)
  \/ \E t \in Threads : ialloc_next(t)
  \/ \E t \in Threads : ialloc_found(t)
  \/ \E t \in Threads : aifm_insert(t)
  \/ \E t \in Threads : aifm_unlock(t)
  \/ \E t \in Threads : d_remove1(t)
  \/ \E t \in Threads : d_remove2(t)
  \/ \E t \in Threads : free_inode(t)
  \/ \E t \in Threads : mnode_alloc(t)
  \/ \E t \in Threads : mnode_insert(t)

SpecInode == InodeInit /\ [][InodeNext]_vars

(* ------------------------- the journal lock ----------------------------- *)
\* the callers that work on the journal's transaction log: add_op_to_journal
\* with and without skip_add, add_fsync_to_journal without a flush,
\* process_metadata_log_and_flush, and the reclaim of inodes at boot
JKinds == {"add_op", "add_op_skip", "add_fsync", "flush", "reclaim"}

\* a caller arrives at 'auto journal_lock = fs_journal->prepare_for_commit()'
journal_call(t, k) ==
  /\ a_panic = "" /\ apc[t] = "idle"
  /\ k \in {"add_op", "add_op_skip", "add_fsync", "reclaim"}
       => n_trans < MaxTrans
  /\ apc' = Upd(apc, t, "jl_prepare")
  /\ a_call' = Upd(a_call, t, k)
  /\ a_tr' = IF k = "flush" THEN a_tr
             ELSE Upd(a_tr, t, add_allocated_block(EmptyTrans, n_trans + 1))
  /\ n_trans' = IF k = "flush" THEN n_trans ELSE n_trans + 1
  /\ UNCHANGED <<allocVars, fileVars, flushVars, a_bn, a_bno, a_panic,
                 n_alloc, n_free, freed_other, got, nonAllocVars>>

\* prepare_for_commit with a slip: the lock is taken without waiting
prepare_for_commit_no_wait(t) ==
  /\ a_panic = "" /\ apc[t] = "jl_prepare"
  /\ journal_lock' = t
  /\ apc' = Upd(apc, t, IF a_call[t] = "flush" THEN "jl_flush" ELSE "jl_add")
  /\ UNCHANGED <<allocVars, fileVars, alloc_log, batch, batch_it, commit_rec,
                 a_call, a_bn, a_bno, a_tr, a_panic, countVars, nonAllocVars>>

\* fs_journal->prepare_for_commit(): the caller waits for the journal lock
\* and holds it to the end of its scope
prepare_for_commit(t) ==
  /\ a_panic = "" /\ apc[t] = "jl_prepare"
  /\ journal_lock = ""
  /\ journal_lock' = t
  /\ apc' = Upd(apc, t, IF a_call[t] = "flush" THEN "jl_flush" ELSE "jl_add")
  /\ UNCHANGED <<allocVars, fileVars, alloc_log, batch, batch_it, commit_rec,
                 a_call, a_bn, a_bno, a_tr, a_panic, countVars, nonAllocVars>>

\* add_op_to_journal (op->apply(tr), add_to_journal_locked unless skip_add)
\* and add_fsync_to_journal(tr, false) return and drop the lock; the reclaim
\* at boot goes on to flush_journal_locked with the lock held
add_transaction_locked(t) ==
  /\ a_panic = "" /\ apc[t] = "jl_add"
  /\ alloc_log' = IF a_call[t] = "add_op_skip" THEN alloc_log
                  ELSE Append(alloc_log, a_tr[t])
  /\ a_tr' = Upd(a_tr, t, NoTrans)
  /\ IF a_call[t] = "reclaim"
       THEN /\ apc' = Upd(apc, t, "jl_flush")
            /\ UNCHANGED <<journal_lock, a_call>>
       ELSE /\ apc' = Upd(apc, t, "idle")
            /\ a_call' = Upd(a_call, t, "")
            /\ journal_lock' = IF journal_lock = t THEN "" ELSE journal_lock
  /\ UNCHANGED <<allocVars, fileVars, batch, batch_it, commit_rec, a_bn,
                 a_bno, a_panic, countVars, nonAllocVars>>

\* flush_journal_locked: one turn of the loop over transaction_log, or, at
\* its end, transaction_log.clear(); the caller then drops the lock
flush_iterate(t) ==
  /\ a_panic = "" /\ apc[t] = "jl_flush"
  /\ IF batch_it <= Len(alloc_log)
       THEN /\ batch_it' = batch_it + 1
            /\ UNCHANGED <<alloc_log, journal_lock, apc, a_call>>
       ELSE /\ alloc_log' = <<>>
            /\ batch_it' = 1
            /\ journal_lock' = IF journal_lock = t THEN "" ELSE journal_lock
            /\ apc' = Upd(apc, t, "idle")
            /\ a_call' = Upd(a_call, t, "")
  /\ UNCHANGED <<allocVars, fileVars, batch, commit_rec, a_bn, a_bno, a_tr,
                 a_panic, countVars, nonAllocVars>>

JournalLockNext ==
  \/ \E t \in Threads, k \in JKinds : journal_call(t, k)
  \/ \E t \in Threads : prepare_for_commit(t)
  \/ \E t \in Threads : add_transaction_locked(t)
  \/ \E t \in Threads : flush_iterate(t)

SpecJournalLock == BlocksInit /\ [][JournalLockNext]_vars


(* ---------------------- directories: dirlink, dirunlink ------------------ *)
\* everything outside the directory
nonDirVars == <<jvars, rvars, avars, ivars, svars>>

DCanCall(t) == dpc[t] = "idle" /\ n_dcalls < MaxDCalls

\* dirlookup(dp, name): the inum of the entry, 0 for no entry and for an
\* entry whose inum is 0
dirlookup(n) == IF dir[n].in THEN dir[n].inum ELSE 0

\* a mutation of dir_flush_entry: the dirent is not written
dir_flush_entry_skips_write(n) == dslot
\* dir_flush_entry(dp, name, trans): the dirent of the name, with the inum the
\* map holds for it, is written to its slot of the directory file
dir_flush_entry(n) ==
  [dslot EXCEPT ![dir[n].off] = [name |-> n, inum |-> dir[n].inum]]

\* dp->size after dir_flush_entry
flushed_size(n) == IF d_size < dir[n].off + 1 THEN dir[n].off + 1 ELSE d_size

\* a thread looks a name up without the inode lock
dirlookup_call(t, n) ==
  /\ DCanCall(t)
  /\ d_seen' = Upd(d_seen, t, dirlookup(n))
  /\ d_name' = Upd(d_name, t, n)
  /\ n_dcalls' = n_dcalls + 1
  /\ UNCHANGED <<dirVars, dpc, d_inum, d_de, d_link, d_rc, nonDirVars>>

\* create_directory_entry(mdir_mnum, name, dirent_mnum, type, tr): dirlookup;
\* the entry is there already, or names another inode and is unlinked first,
\* or is missing
create_directory_entry_call(t, n, inum) ==
  /\ DCanCall(t)
  /\ dir_offset + Cardinality({u \in Threads : d_link[u] # 0}) < MaxSlots
  /\ d_seen' = Upd(d_seen, t, dirlookup(n))
  /\ d_name' = Upd(d_name, t, n)
  /\ n_dcalls' = n_dcalls + 1
  /\ IF dirlookup(n) = inum
       THEN UNCHANGED <<dpc, d_link, d_inum>>
       ELSE /\ d_link' = Upd(d_link, t, inum)
            /\ d_inum' = Upd(d_inum, t, inum)
            /\ dpc' = Upd(dpc, t, IF dirlookup(n) # 0 THEN "uoi_lookup" ELSE "dl_lock")
  /\ UNCHANGED <<dirVars, d_de, d_rc, nonDirVars>>

\* unlink_old_inode(mdir_mnum, name, tr)
unlink_old_inode_call(t, n) ==
  /\ DCanCall(t)
  /\ d_name' = Upd(d_name, t, n)
  /\ d_link' = Upd(d_link, t, 0)
  /\ dpc' = Upd(dpc, t, "uoi_lookup")
  /\ n_dcalls' = n_dcalls + 1
  /\ UNCHANGED <<dirVars, d_inum, d_de, d_rc, d_seen, nonDirVars>>

\* unlink_old_inode: target = dirlookup(i, name); no target: return
uoi_lookup(t) ==
  /\ dpc[t] = "uoi_lookup"
  /\ d_seen' = Upd(d_seen, t, dirlookup(d_name[t]))
  /\ IF dirlookup(d_name[t]) = 0
       THEN /\ dpc' = Upd(dpc, t, IF d_link[t] # 0 THEN "dl_lock" ELSE "idle")
            /\ UNCHANGED d_inum
       ELSE /\ dpc' = Upd(dpc, t, "du_lock")
            /\ d_inum' = Upd(d_inum, t, dirlookup(d_name[t]))
  /\ UNCHANGED <<dirVars, d_name, d_de, d_link, d_rc, n_dcalls, nonDirVars>>

\* unlink_old_inode: ilock(i, WRITELOCK); dirunlink: de_info = lookup(name)
du_lock(t) ==
  /\ dpc[t] = "du_lock"
  /\ d_lock = ""
  /\ d_lock' = t
  /\ d_de' = Upd(d_de, t, dir[d_name[t]])
  /\ dpc' = Upd(dpc, t, "du_remove")
  /\ UNCHANGED <<dir, dir_offset, dslot, d_size, d_nlink, d_name, d_inum,
                 d_link, d_rc, d_seen, n_dcalls, nonDirVars>>

\* dirunlink: if (!remove(name)) return -1
du_remove(t) ==
  /\ dpc[t] = "du_remove"
  /\ IF dir[d_name[t]].in
       THEN /\ dir' = Upd(dir, d_name[t], NoEntry)
            /\ dpc' = Upd(dpc, t, "du_insert")
            /\ UNCHANGED d_rc
       ELSE /\ d_rc' = Upd(d_rc, t, -1)
            /\ dpc' = Upd(dpc, t, "du_unlock")
            /\ UNCHANGED dir
  /\ UNCHANGED <<dir_offset, dslot, d_size, d_nlink, d_lock, d_name, d_inum,
                 d_de, d_link, d_seen, n_dcalls, nonDirVars>>

\* dirunlink: insert(name, dir_entry_info(0, de_info.offset_))
du_insert(t) ==
  /\ dpc[t] = "du_insert"
  /\ IF dir[d_name[t]].in
       THEN /\ d_rc' = Upd(d_rc, t, -1)
            /\ dpc' = Upd(dpc, t, "du_unlock")
            /\ UNCHANGED dir
       ELSE /\ dir' = Upd(dir, d_name[t], [in |-> TRUE, inum |-> 0, off |-> d_de[t].off])
            /\ dpc' = Upd(dpc, t, "du_flush")
            /\ UNCHANGED d_rc
  /\ UNCHANGED <<dir_offset, dslot, d_size, d_nlink, d_lock, d_name, d_inum,
                 d_de, d_link, d_seen, n_dcalls, nonDirVars>>

\* dirunlink: iget(1, inum)->unlink(); dir_flush_entry(dp, name, trans)
du_flush(t) ==
  /\ dpc[t] = "du_flush"
  /\ d_nlink' = Upd(d_nlink, d_inum[t], d_nlink[d_inum[t]] - 1)
  /\ dslot' = dir_flush_entry(d_name[t])
  /\ d_size' = flushed_size(d_name[t])
  /\ dpc' = Upd(dpc, t, "du_remove2")
  /\ UNCHANGED <<dir, dir_offset, d_lock, d_name, d_inum, d_de, d_link, d_rc,
                 d_seen, n_dcalls, nonDirVars>>

\* dirunlink: dp->dir.load()->remove(name); return 0
du_remove2(t) ==
  /\ dpc[t] = "du_remove2"
  /\ dir' = Upd(dir, d_name[t], NoEntry)
  /\ d_rc' = Upd(d_rc, t, 0)
  /\ dpc' = Upd(dpc, t, "du_unlock")
  /\ UNCHANGED <<dir_offset, dslot, d_size, d_nlink, d_lock, d_name, d_inum,
                 d_de, d_link, d_seen, n_dcalls, nonDirVars>>

\* iunlock of the directory; unlink_old_inode returns, and
\* create_directory_entry goes on to its dirlink
d_unlock(t) ==
  /\ dpc[t] \in {"du_unlock", "dl_unlock"}
  /\ d_lock' = ""
  /\ IF d_link[t] # 0 /\ dpc[t] = "du_unlock"
       THEN dpc' = Upd(dpc, t, "dl_lock") /\ UNCHANGED d_link
       ELSE dpc' = Upd(dpc, t, "idle") /\ d_link' = Upd(d_link, t, 0)
  /\ d_de' = Upd(d_de, t, NoEntry)
  /\ UNCHANGED <<dir, dir_offset, dslot, d_size, d_nlink, d_name, d_inum,
                 d_rc, d_seen, n_dcalls, nonDirVars>>

\* create_directory_entry: ilock(mdir_i, WRITELOCK); dirlink: the insert of
\* (name, (inum, dir_offset)) fails when the name is in the map
dl_lock(t) ==
  /\ dpc[t] = "dl_lock"
  /\ d_lock = ""
  /\ d_lock' = t
  /\ IF dir[d_name[t]].in
       THEN /\ d_rc' = Upd(d_rc, t, -1)
            /\ dpc' = Upd(dpc, t, "dl_unlock")
            /\ UNCHANGED dir
       ELSE /\ dir' = Upd(dir, d_name[t], [in |-> TRUE, inum |-> d_link[t], off |-> dir_offset])
            /\ dpc' = Upd(dpc, t, "dl_offset")
            /\ UNCHANGED d_rc
  /\ UNCHANGED <<dir_offset, dslot, d_size, d_nlink, d_name, d_inum, d_de,
                 d_link, d_seen, n_dcalls, nonDirVars>>

\* dirlink: cmpxch(&dp->dir_offset, dir_offset, dir_offset + sizeof(dirent)),
\* iget(1, inum)->link()
dl_offset(t) ==
  /\ dpc[t] = "dl_offset"
  /\ dir_offset' = dir_offset + 1
  /\ d_nlink' = Upd(d_nlink, d_link[t], d_nlink[d_link[t]] + 1)
  /\ dpc' = Upd(dpc, t, "dl_flush")
  /\ UNCHANGED <<dir, dslot, d_size, d_lock, d_name, d_inum, d_de, d_link, d_rc, d_seen,
                 n_dcalls, nonDirVars>>

\* dirlink: dir_flush_entry(dp, name, trans); return 0
dl_flush(t) ==
  /\ dpc[t] = "dl_flush"
  /\ dslot' = dir_flush_entry(d_name[t])
  /\ d_size' = flushed_size(d_name[t])
  /\ d_rc' = Upd(d_rc, t, 0)
  /\ dpc' = Upd(dpc, t, "dl_unlock")
  /\ UNCHANGED <<dir, dir_offset, d_nlink, d_lock, d_name, d_inum, d_de,
                 d_link, d_seen, n_dcalls, nonDirVars>>

DirInit ==
  /\ JournalFresh
  /\ ResolverBoot({}, "file")
  /\ AllocBoot({})
  /\ InodeBoot({}, {})
  /\ \E linked \in SUBSET Names : DirBoot(linked)
  /\ ReclaimBoot

DirNext ==
  \/ \E t \in Threads, n \in Names : dirlookup_call(t, n)
  \/ \E t \in Threads, n \in Names, i \in DInums : create_directory_entry_call(t, n, i)
  \/ \E t \in Threads, n \in Names : unlink_old_inode_call(t, n)
  \/ \E t \in Threads : uoi_lookup(t)
  \/ \E t \in Threads : du_lock(t)
  \/ \E t \in Threads : du_remove(t)
  \/ \E t \in Threads : du_insert(t)
  \/ \E t \in Threads : du_flush(t)
  \/ \E t \in Threads : du_remove2(t)
  \/ \E t \in Threads : d_unlock(t)
  \/ \E t \in Threads : dl_lock(t)
  \/ \E t \in Threads : dl_offset(t)
  \/ \E t \in Threads : dl_flush(t)

SpecDir == DirInit /\ [][DirNext]_vars

(* ------------------- deferred reclaim of unlinked inodes ---------------- *)
\* everything outside the reclaim list
nonReclaimVars == <<jvars, rvars, avars, ivars, dvars>>

\* get_superblock(&sb, true) into a local superblock: num_reclaim_inodes and
\* the first num_reclaim_inodes entries are copied from sb_root, the other
\* entries of the local array keep what the stack held (junk)
get_superblock(junk) ==
  [num |-> sb_root.num,
   list |-> [k \in SSlots |-> IF k < sb_root.num THEN sb_root.list[k] ELSE junk[k]]]

\* defer_inode_reclaim(inum) on its local superblock: a full list gives the
\* warning and nothing is written; otherwise the inode is stored at
\* num_reclaim_inodes++ and the superblock is written to block 1
defer_inode_reclaim(sb, inum) ==
  [num |-> sb.num + 1, list |-> [sb.list EXCEPT ![sb.num] = inum]]

\* unlink_old_inode removes the last link of a file: with open references to
\* its mnode the inode is recorded for reclaim (defer_inode_reclaim), without
\* them delete_old_inode frees it
unlink_old_inode_last(inum, open) ==
  /\ spc = "run" /\ s_panic = ""
  /\ s_type[inum] = "file" /\ s_nlink[inum] = 1
  /\ inum \notin s_owed
  /\ s_nlink' = [s_nlink EXCEPT ![inum] = 0]
  /\ IF open
       THEN /\ \E junk \in [SSlots -> {0, MaxSInum}] :
                 LET sb == get_superblock(junk) IN
                 sb_disk' = IF sb.num >= NRECLAIM_INODES THEN sb_disk
                            ELSE defer_inode_reclaim(sb, inum)
            /\ s_calls' = s_calls + 1
            /\ s_owed' = IF s_calls < NRECLAIM_INODES THEN s_owed \cup {inum} ELSE s_owed
            /\ UNCHANGED s_type
       ELSE /\ s_type' = [s_type EXCEPT ![inum] = "free"]
            /\ UNCHANGED <<sb_disk, s_calls, s_owed>>
  /\ UNCHANGED <<sb_root, spc, s_sb, s_i, s_panic, s_missed, s_boots,
                 nonReclaimVars>>

\* ialloc and a link: a free inode becomes a linked file again
s_create(inum) ==
  /\ spc = "run" /\ s_panic = ""
  /\ s_type[inum] = "free"
  /\ s_type' = [s_type EXCEPT ![inum] = "file"]
  /\ s_nlink' = [s_nlink EXCEPT ![inum] = 1]
  /\ UNCHANGED <<sb_root, sb_disk, spc, s_sb, s_i, s_panic, s_calls, s_owed,
                 s_missed, s_boots, nonReclaimVars>>

\* the machine goes down and boots: initinode reads the superblock into
\* sb_root (readsb), initfs takes its local copy with get_superblock
s_reboot ==
  /\ spc = "run" /\ s_panic = ""
  /\ s_boots < MaxBoots
  /\ s_boots' = s_boots + 1
  /\ sb_root' = sb_disk
  /\ \E junk \in [SSlots -> {0, MaxSInum}] :
       s_sb' = [num |-> sb_disk.num,
                list |-> [k \in SSlots |-> IF k < sb_disk.num THEN sb_disk.list[k]
                                           ELSE junk[k]]]
  /\ s_i' = 0
  /\ spc' = "initfs"
  /\ UNCHANGED <<sb_disk, s_type, s_nlink, s_panic, s_calls, s_owed, s_missed,
                 nonReclaimVars>>

\* initfs: one round of the loop over sb.reclaim_inodes: iget, itrunc,
\* free_inode (which asserts nlink == 0), add_to_journal_locked
initfs_reclaim ==
  /\ spc = "initfs" /\ s_panic = ""
  /\ s_i < s_sb.num
  /\ LET inum == s_sb.list[s_i] IN
     IF inum = 0
       THEN UNCHANGED <<s_type, s_sb, s_panic, s_owed>>
       ELSE IF s_nlink[inum] # 0
         THEN /\ s_panic' = "free_inode: nlink == 0"
              /\ UNCHANGED <<s_type, s_sb, s_owed>>
         ELSE /\ s_type' = [s_type EXCEPT ![inum] = "free"]
              /\ s_sb' = [s_sb EXCEPT !.list[s_i] = 0]
              /\ s_owed' = s_owed \ {inum}
              /\ UNCHANGED s_panic
  /\ s_i' = s_i + 1
  /\ UNCHANGED <<sb_root, sb_disk, s_nlink, spc, s_calls, s_missed, s_boots,
                 nonReclaimVars>>

\* initfs after the loop: flush_journal_locked, then the superblock with
\* num_reclaim_inodes = 0 is written to block 1
initfs_reset ==
  /\ spc = "initfs" /\ s_panic = ""
  /\ s_i >= s_sb.num
  /\ sb_disk' = [s_sb EXCEPT !.num = 0]
  /\ spc' = "run"
  /\ s_calls' = 0
  /\ s_missed' = s_owed
  /\ s_owed' = {}
  /\ UNCHANGED <<sb_root, s_type, s_nlink, s_sb, s_i, s_panic, s_boots,
                 nonReclaimVars>>

ReclaimInit ==
  /\ JournalFresh
  /\ ResolverBoot({}, "file")
  /\ AllocBoot({})
  /\ InodeBoot({}, {})
  /\ DirBoot({})
  /\ ReclaimBoot

ReclaimNext ==
  \/ \E i \in SInums, open \in BOOLEAN : unlink_old_inode_last(i, open)
  \/ \E i \in SInums : s_create(i)
  \/ s_reboot
  \/ initfs_reclaim
  \/ initfs_reset

SpecReclaim == ReclaimInit /\ [][ReclaimNext]_vars

(* ------------------------------ claims --------------------------------- *)

\* C2 (as claimed): if the crash came after the jrnl_commit record of a batch
\* was written and before any of its home-location writes, then once
\* process_journal has run at the next boot every block of that batch is on
\* its home location, for a batch of any number of sub-transactions.
C2_CommittedBatchRecovered ==
  (mode = "boot" /\ rpc = "done" /\ crash_batch.valid)
    => \A i \in DOMAIN crash_batch.blocks :
         disk[crash_batch.blocks[i].bno] = crash_batch.blocks[i].data

\* C5 (as claimed): no block of a batch is written to its home location
\* until the batch's jrnl_commit record has been written and ideflush() has
\* completed after it.
C5_CommitFlushedBeforeHomeWrite ==
  (home_pending # {} \/ home_issued) => (commit_written /\ ideflushed)

\* C6 (as claimed): when process_journal stops at a record whose timestamp
\* does not match the current transaction, the blocks of every transaction
\* whose jrnl_commit was read before that record are still written to their
\* home locations.
C6_CommittedPrefixApplied ==
  (mode = "boot" /\ rpc = "done" /\ jrnl_error)
    => \A b \in CommittedBlocks(j_at_scan) : disk[b.bno] = b.data

\* C7: process_journal writes to a home location only blocks of data
\* records that lie between a jrnl_start and a jrnl_commit of the same
\* timestamp; data records that no commit closes are never written.
C7_OnlyCommittedApplied ==
  \A b \in r_written : b \in CommittedBlocks(j_at_scan)

\* C7 witness: process_journal has finished on a journal that held a data
\* record after a jrnl_start with no commit, and did not write it.
C7_Witness ==
  /\ mode = "boot" /\ rpc = "done" /\ pj_runs = 1
  /\ UncommittedSlots(j_at_scan) # {}
  /\ \E k \in UncommittedSlots(j_at_scan) : BlockOf(j_at_scan[k]) \notin r_written

\* C8: process_journal is idempotent: after the second of two runs in a row
\* the home locations and the journal file are what they were after the first.
C8_Idempotent ==
  (mode = "boot" /\ rpc = "done" /\ pj_runs = 2)
    => (disk = snap.disk /\ jdisk = snap.jdisk)

\* C8 witness: the second run has finished, and the first run had written
\* committed blocks to their home locations.
C8_Witness ==
  mode = "boot" /\ rpc = "done" /\ pj_runs = 2 /\ snap.wrote # {}

\* C9: when flush_journal_locked returns, the transaction log is empty, the
\* journal offset is 0 and the journal file starts with a zero header.
C9_FlushLeavesJournalEmpty ==
  (mode = "run" /\ jpc = "ret" /\ ~ in_fsync)
    => /\ transaction_log = <<>>
       /\ offset = 0
       /\ jdisk[0].type = "zero" /\ jdisk[0].ts = 0 /\ jdisk[0].bno = 0

\* C9 witness: flush_journal_locked returns after it committed a batch.
C9_Witness ==
  mode = "run" /\ jpc = "ret" /\ ~ in_fsync /\ commit_written /\ home_issued

\* the slots of the jrnl_data records of the batch whose commit was just written
BatchDataSlots == 1..((offset \div RecSize) - 2)

\* C10: in the batch flush_journal has just committed, every slot between
\* the start and the commit record is a jrnl_data record, every block
\* number written by a sub-transaction of the batch has exactly one
\* jrnl_data record, and that record carries the content of the
\* sub-transaction latest in the transaction log.
C10_OneLatestRecordPerBlock ==
  (mode = "run" /\ jpc = "apply" /\ ~ in_fsync)
    => /\ \A k \in BatchDataSlots : jdisk[k].type = "data"
       /\ \A b \in {x.bno : x \in Range(batch_all)} :
            /\ Cardinality({k \in BatchDataSlots : jdisk[k].bno = b}) = 1
            /\ \A k \in BatchDataSlots :
                 jdisk[k].bno = b => jdisk[k].data = LatestData(batch_all, b)

\* C10 witness: a committed batch in which two sub-transactions wrote the
\* same block number.
C10_Witness ==
  /\ mode = "run" /\ jpc = "apply" /\ ~ in_fsync
  /\ \E i, k \in DOMAIN batch_all :
       i < k /\ batch_all[i].bno = batch_all[k].bno


(* ------------------------- claims: the resolver ------------------------ *)
\* thread t has returned from process_metadata_log_and_flush
Returned(t) == panicked = "" /\ tpc[t] = "returned"

\* C1 (as claimed): after process_metadata_log_and_flush(T, m) returns, the
\* oplog of m holds no operation with timestamp <= T, and every operation it
\* held with such a timestamp was applied to a transaction that was added to
\* the transaction log and flushed.
C1_EveryOpFlushed ==
  \A t \in Threads :
    Returned(t) =>
      /\ \A o \in AllOps(oplog[fs_mnum[t]]) : o.ts > fs_tsc[t]
      /\ \A o \in target_ops[t] : o \in UNION flushed

\* C1 (amended): after process_metadata_log_and_flush(T, m) returns, the
\* oplog of m holds no operation with timestamp <= T, and every such
\* operation other than a rename_barrier was applied to a transaction that
\* was added to the transaction log and flushed; a rename_barrier is erased
\* without a transaction.
C1_FsyncDrainsOplog ==
  \A t \in Threads :
    Returned(t) =>
      /\ \A o \in AllOps(oplog[fs_mnum[t]]) : o.ts > fs_tsc[t]
      /\ \A o \in target_ops[t] :
           IF o.kind = "rename_barrier"
           THEN o \notin UNION flushed
           ELSE o \in UNION flushed

\* C1 witness: an fsync has returned whose target's oplog held a
\* rename_barrier and another operation with timestamps <= T.
C1_Witness ==
  \E t \in Threads :
    /\ Returned(t)
    /\ \E o \in target_ops[t] : o.kind = "rename_barrier"
    /\ \E o \in target_ops[t] : o.kind # "rename_barrier"

\* the transactions in the transaction log and the flushed ones
Transactions ==
  flushed \cup {transaction_log[i].ops : i \in DOMAIN transaction_log}

\* C3: a rename is fully applied or not applied: every transaction, in the
\* transaction log or flushed, that holds one sub-operation of a rename
\* holds the other one too, and an oplog holds a rename sub-operation only
\* while its counterpart's oplog holds the counterpart (they are erased
\* together), also when another thread flushes the journal between the two
\* applications.
C3_RenameAtomic ==
  /\ \A S \in Transactions : \A o \in S :
       /\ o.kind = "rename_link" =>
            \E u \in S : u.kind = "rename_unlink" /\ u.ts = o.ts
       /\ o.kind = "rename_unlink" =>
            \E u \in S : u.kind = "rename_link" /\ u.ts = o.ts
  /\ \A m \in Mnums : \A o \in AllOps(oplog[m]) :
       /\ o.kind = "rename_link" =>
            \E u \in AllOps(oplog[o.src]) :
               u.kind = "rename_unlink" /\ u.ts = o.ts
       /\ o.kind = "rename_unlink" =>
            \E u \in AllOps(oplog[o.dst]) :
               u.kind = "rename_link" /\ u.ts = o.ts

\* C3 witness: both sub-operations of a rename are in a flushed
\* transaction, and another thread flushed the journal between their two
\* applications.
C3_Witness ==
  /\ flush_between
  /\ \E S \in flushed : \E o \in S : o.kind = "rename_link"

\* a step of thread t out of the loop body with a link at the front whose
\* child has no inode: the link stays and (child, timestamp, 1) is pushed
LinkDepStep(t) ==
  (/\ InLoop(t) /\ ~ process_create[t]
   /\ Front(t).kind = "link" /\ Front(t).mnum \notin mnum_to_inum
   /\ tpc'[t] # tpc[t])
    => /\ oplog'[cur_log[t]].vec = oplog[cur_log[t]].vec
       /\ pending_stack'[t] =
            Append(pending_stack[t],
                   [mnum |-> Front(t).mnum, max_tsc |-> Front(t).ts,
                    count |-> 1])

\* C4 (as claimed): whenever the resolver applies a link operation its
\* child has an inode binding; a link whose child has no inode is not
\* consumed and (child, link timestamp, 1) is pushed on the pending stack.
C4_CreatePrecedesLink ==
  [](~ unbound_link) /\ [][\A t \in Threads : LinkDepStep(t)]_vars


(* ----------------------- claims: the allocator -------------------------- *)
\* number of times b is in the freelist
InFreelist(b) ==
  Cardinality({i \in DOMAIN free_bit_freelist : free_bit_freelist[i] = b})

AllIdle == \A t \in Threads : apc[t] = "idle"

\* C12 (as claimed): in every reachable state, also between the steps of
\* concurrent alloc_block and free_block calls, a block whose free-bit is free
\* is exactly once in the freelist and a block that is not free is not in it
C12_FreeIffOnceInFreelist ==
  \A b \in Bnos : InFreelist(b) = (IF free_bit_vector[b] THEN 1 ELSE 0)

\* C13 (as claimed): an alloc_block call that finds the freelist empty returns sb.size and
\* changes neither the free-bits nor the freelist; one that finds it non-empty
\* returns the block at its head, which is then not free and not in the list
C13_AllocBlock ==
  [][\A t \in Threads :
       /\ (apc[t] = "alloc_lock" /\ apc'[t] # "alloc_lock"
             /\ free_bit_freelist = <<>>)
            => /\ a_bno'[t] = sb_size
               /\ UNCHANGED <<free_bit_vector, free_bit_freelist>>
       /\ (apc[t] = "alloc_erase" /\ apc'[t] # "alloc_erase")
            => /\ a_bno'[t] = Head(free_bit_freelist)
               /\ ~ free_bit_vector'[a_bno'[t]]
               /\ \A i \in DOMAIN free_bit_freelist' :
                    free_bit_freelist'[i] # a_bno'[t]]_vars

\* C15 (as claimed): after initialize_free_bit_vector, when as many free_block
\* calls as alloc_block calls have returned, the in-memory free-bits equal the
\* on-disk bitmap (a block is free iff its bit is clear)
C15_MatchingCountsRestoreBitmap ==
  (AllIdle /\ n_alloc = n_free)
    => \A b \in Bnos : free_bit_vector[b] = ~ bitmap[b]

\* C15 (amended): the same, when every free_block call freed a block that an
\* alloc_block call had returned
C15_FreeingTheAllocatedRestoresBitmap ==
  (AllIdle /\ n_alloc = n_free /\ ~ freed_other)
    => \A b \in Bnos : free_bit_vector[b] = ~ bitmap[b]

\* two blocks were allocated and both were freed again
C15_Witness ==
  AllIdle /\ n_alloc = 2 /\ n_free = 2 /\ ~ freed_other


(* ------------------ claims: blocks and transactions --------------------- *)
\* the transactions that exist: being built, in the log, being flushed
LiveTransactions ==
  {a_tr[t] : t \in Threads} \cup Range(alloc_log) \cup Range(batch)

\* the blocks freed with delayed_free by a transaction whose
\* post_process_transaction has not reached them yet
DelayedPending == UNION {tr.delayed : tr \in LiveTransactions}

\* C11 (as claimed): post_process_transaction runs only when the commit record
\* of its batch is written, and alloc_block never returns a block that a
\* transaction freed with delayed_free in itrunc before
\* post_process_transaction has freed it
C11_FreedBlockNotReusedBeforeCommit ==
  /\ [](\A t \in Threads :
          (a_call[t] = "flush" /\ apc[t] \notin {"idle", "epilog"})
            => commit_rec)
  /\ [][\A t \in Threads :
          (apc[t] = "alloc_erase" /\ apc'[t] # "alloc_erase")
            => a_bno'[t] \notin DelayedPending]_vars

\* number of blocks that are free in memory, as print_free_blocks counts them
print_free_blocks == Cardinality({b \in Bnos : free_bit_vector[b]})

popcount(bm) == Cardinality({b \in Bnos : bm[b]})

\* the entries of the free_block_lists of the transactions being flushed that
\* post_process_transaction has not reached yet
InFlightFreed ==
  LET RECURSIVE sum(_)
      sum(trs) == IF trs = <<>> THEN 0
                  ELSE Len(Head(trs).free_block_list) + sum(Tail(trs))
  IN sum(batch)

\* C14 (as claimed): the number of blocks free in memory is sb.size minus the
\* number of bits set in the on-disk bitmap minus the number of blocks freed
\* by committing transactions that are not post-processed yet
C14_FreeCount ==
  a_panic = ""
    => print_free_blocks = sb_size - popcount(bitmap) - InFlightFreed

(* ------------------------ claims: the inode layer ----------------------- *)
\* C16 (as claimed): the inode lock is a reader/writer lock in every
\* interleaving of the ilock and iunlock calls the file system makes: while a
\* thread holds an inode for write no other thread holds it for read or for
\* write, and no thread is left asleep in ilock on an inode it could lock
\* (iunlock wakes all waiters).
C16_ReaderWriterLock ==
  /\ \A t, u \in Threads :
       (t # u /\ i_holds[t].o # 0 /\ i_holds[t].o = i_holds[u].o)
         => (~ i_holds[t].w /\ ~ i_holds[u].w)
  /\ \A t \in Threads :
       ipc[t] = "ilock_sleep"
         => (ino[i_ip[t]].busy \/ (i_mode[t] /\ ino[i_ip[t]].readbusy # 0))

\* C17 (as claimed): ialloc returns the new inode locked for write, held by
\* its caller, and the iunlock of create_file_dir_if_new on the inode that
\* alloc_inode_for_mnode returned never reaches the panic of iunlock.
C17_IallocReturnsLocked ==
  \A t \in Threads :
    /\ ipc[t] = "ialloc_found"
         => (ino[i_ip[t]].busy /\ i_holds[t] = [o |-> i_ip[t], w |-> TRUE])
    /\ ~ (i_call[t] = "create" /\ ipc[t] = "iunlock" /\ i_lret[t] = "call_end"
          /\ i_panic = "iunlock")

\* C18 (as claimed): the references iget has returned for one inode number and
\* that are held at the same time are references to the same in-memory inode,
\* that inode is valid, and an iget that loses the race of inserting an
\* uncached inode retries and returns the cached one (it does not stop in
\* onzero of the inode it allocated).
C18_IgetSameInode ==
  /\ \A t, u \in Threads :
       (i_got[t] # 0 /\ i_got[u] # 0 /\ ino[i_got[t]].inum = ino[i_got[u]].inum)
         => i_got[t] = i_got[u]
  /\ \A t \in Threads : i_got[t] # 0 => ino[i_got[t]].valid
  /\ i_panic # "iput not valid"

\* no thread is inside alloc_inode_for_mnode, mnode_alloc or delete_old_inode
NoBindingCall == \A t \in Threads : i_call[t] \notin {"create", "delete", "load"}

\* C19 (as claimed): whenever no call of alloc_inode_for_mnode, mnode_alloc
\* or delete_old_inode is in progress, mnum_to_inum maps m to i exactly when
\* inum_to_mnum maps i to m.
C19_BindingsInverse ==
  NoBindingCall =>
    \A m \in IMnums, i \in INums :
      (b_mnum_to_inum[m] = i) <=> (inum_to_mnum[i] = m)

(* ------------------------- claims: directories -------------------------- *)
\* thread t is in dirunlink, or has returned from it with 0 and still holds
\* the lock of the directory, and has removed the name once at least
Unlinking(t) ==
  \/ dpc[t] \in {"du_insert", "du_flush", "du_remove2"}
  \/ dpc[t] = "du_unlock" /\ d_rc[t] = 0
\* the slot of the entry that thread t unlinks holds inum = 0
SlotRewritten(t) == dslot[d_de[t].off].inum = 0

\* C20 (as claimed): at every step of dirunlink the name is present with its
\* old inum, present as a tombstone (inum = 0), or, only after the slot was
\* rewritten with inum = 0, absent.
C20_AbsentOnlyAfterRewrite ==
  \A t \in Threads :
    Unlinking(t) =>
      \/ dir[d_name[t]].in /\ dir[d_name[t]].inum \in {d_de[t].inum, 0}
      \/ ~ dir[d_name[t]].in /\ SlotRewritten(t)

\* C20 (amended): dirunlink replaces the entry by a tombstone in two steps,
\* remove(name) and insert(name, (0, offset)), and the name is absent between
\* them; from then on the name is a tombstone at the old offset until the
\* slot has been rewritten with inum = 0 in the transaction, and only
\* then is the name removed for good.
C20_TombstoneUntilRewritten ==
  \A t \in Threads :
    Unlinking(t) =>
      \/ dpc[t] = "du_insert" /\ ~ dir[d_name[t]].in
      \/ /\ dpc[t] \in {"du_flush", "du_remove2"}
         /\ dir[d_name[t]] = [in |-> TRUE, inum |-> 0, off |-> d_de[t].off]
         /\ dpc[t] = "du_remove2" => SlotRewritten(t)
      \/ dpc[t] = "du_unlock" /\ ~ dir[d_name[t]].in /\ SlotRewritten(t)

\* a dirunlink has returned 0: the name is gone and its slot is a tombstone
C20_Witness ==
  \E t \in Threads :
    /\ dpc[t] = "du_unlock" /\ d_rc[t] = 0
    /\ d_de[t].inum # 0
    /\ ~ dir[d_name[t]].in
    /\ dslot[d_de[t].off] = [name |-> d_name[t], inum |-> 0]

(* ------------------------ claims: the reclaim list ---------------------- *)
\* C21 (as claimed): starting from an empty reclaim list, after k <=
\* NRECLAIM_INODES calls of defer_inode_reclaim the superblock on the disk has
\* num_reclaim_inodes = k, a further call leaves it unchanged, and
\* num_reclaim_inodes never exceeds NRECLAIM_INODES.
C21_DeferRecordsEachInode ==
  /\ sb_disk.num <= NRECLAIM_INODES
  /\ (spc = "run" /\ s_panic = "") =>
       sb_disk.num = IF s_calls <= NRECLAIM_INODES THEN s_calls ELSE NRECLAIM_INODES

\* C22 (as claimed): every inode recorded for deferred reclaim has been
\* truncated and freed when the next initfs is over, initfs does not stop on
\* an assertion, and it leaves the list on the disk empty.
C22_DeferredInodesReclaimed ==
  /\ s_missed = {}
  /\ s_panic = ""
  /\ (spc = "run" /\ s_calls = 0) => sb_disk.num = 0

(* -------------------- claims: the size of a batch ---------------------- *)
RECURSIVE LogBlocks(_)
\* the blocks of the sub-transactions of a transaction log, in log order
LogBlocks(log) ==
  IF log = <<>> THEN <<>> ELSE Head(log).blocks \o LogBlocks(Tail(log))

\* the journal space the sub-transactions of log need as one batch: a start
\* record, one data record per block number and a commit record
BatchNeed(log) == RecSize * (2 + Len(deduplicate_blocks(LogBlocks(log))))

\* flush_journal_locked has returned from a call that found sub-transactions
FlushReturned ==
  mode = "run" /\ jpc = "ret" /\ ~ in_fsync /\ flush_log # <<>>

\* C23: when the sub-transactions of one flush need more journal space than
\* PHYS_JOURNAL_SIZE, flush_journal_locked performs one intermediate cycle
\* (commit, apply, reset, retry), and when it returns every home location a
\* sub-transaction wrote holds the content of the sub-transaction latest in
\* the log, as if all of them had been applied as one batch.
C23_OneIntermediateCycle ==
  (FlushReturned /\ BatchNeed(flush_log) > PHYS_JOURNAL_SIZE)
    => /\ n_cycles = 1
       /\ \A b \in {x.bno : x \in Range(LogBlocks(flush_log))} :
            disk[b] = LatestData(LogBlocks(flush_log), b)

\* the journal offset at which fits_in_journal was asked about the
\* sub-transaction being retried: the data records of the batch were written
\* after the answer
OffsetAtReject == offset - RecSize * Len(prune_trans)

\* C24: a flush whose start, data and commit records end exactly at
\* PHYS_JOURNAL_SIZE is committed as one batch without a retry, and a
\* sub-transaction is rejected by fits_in_journal only when its records and
\* the commit record would end past PHYS_JOURNAL_SIZE.
C24_ExactFitAccepted ==
  /\ (mode = "run" /\ jpc = "commit" /\ ~ in_fsync
        /\ BatchNeed(flush_log) = PHYS_JOURNAL_SIZE)
       => /\ n_cycles = 0 /\ ~ retrying
          /\ offset = PHYS_JOURNAL_SIZE
          /\ Len(processed_trans_vec) = Len(flush_log)
  /\ (mode = "run" /\ jpc = "epilog" /\ retrying)
       => OffsetAtReject
            + RecSize * (1 + Len(transaction_log[it].blocks))
            > PHYS_JOURNAL_SIZE

\* C24 witness: the commit record of a batch that fills the journal exactly
\* has been appended.
C24_Witness ==
  /\ mode = "run" /\ jpc = "commit" /\ ~ in_fsync
  /\ BatchNeed(flush_log) = PHYS_JOURNAL_SIZE
  /\ offset = PHYS_JOURNAL_SIZE

\* C26: in every batch flush_journal_locked writes, each jrnl_data record
\* carries the timestamp of the batch's jrnl_start and jrnl_commit records.
C26_DataRecordsCarryBatchTimestamp ==
  (mode = "run" /\ ~ in_fsync /\ jpc \in {"epilog", "commit"})
    => \A i \in DOMAIN trans :
         trans[i].rec.type = "data" => trans[i].rec.ts = prolog_timestamp

\* C27: while flush_journal_locked runs, the journal offset never exceeds
\* PHYS_JOURNAL_SIZE and no record is written past it.
C27_OffsetWithinJournal ==
  (mode = "run" /\ ~ in_fsync)
    => /\ offset <= PHYS_JOURNAL_SIZE
       /\ \A i \in DOMAIN trans :
            (trans[i].slot + 1) * RecSize <= PHYS_JOURNAL_SIZE

\* C28: flush_journal_locked terminates for every transaction log: once it
\* has entered its loop it returns (unless the machine crashes first),
\* whatever the number of blocks of a sub-transaction.
C28_FlushTerminates ==
  (mode = "run" /\ jpc = "loop") ~> (jpc = "ret" \/ mode = "boot")

(* ----------------- claims: the order of the resolver ------------------- *)
\* the oplog an operation was logged in
LogOf(o) ==
  CASE o.kind \in {"create", "rename_barrier"} -> o.mnum
    [] o.kind \in {"link", "unlink"} -> o.parent
    [] o.kind = "rename_link" -> o.dst
    [] OTHER -> o.src

\* the operations whose transaction was appended to the transaction log
AppendedOps ==
  UNION {transaction_log[i].ops : i \in DOMAIN transaction_log}
    \cup UNION flushed

\* C25: the operations of one oplog are applied in increasing timestamp
\* order: of two transactions in the transaction log that hold operations of
\* the same oplog the earlier one holds the smaller timestamp, and no
\* transaction is appended for an operation while an operation of the same
\* oplog with a smaller timestamp is still in the oplog.
C25_OplogOrder ==
  /\ \A i, k \in DOMAIN transaction_log :
       \A o \in transaction_log[i].ops, o2 \in transaction_log[k].ops :
         (i < k /\ LogOf(o) = LogOf(o2)) => o.ts < o2.ts
  /\ \A m \in Mnums :
       \A o2 \in AppendedOps, o \in AllOps(oplog[m]) :
         LogOf(o2) = m => o2.ts < o.ts

\* C25 witness: the transaction log holds the transactions of two
\* operations of one oplog, and a later operation of that oplog waits.
C25_Witness ==
  /\ panicked = ""
  /\ \E i, k \in DOMAIN transaction_log :
       /\ i < k
       /\ \E o \in transaction_log[i].ops, o2 \in transaction_log[k].ops :
            /\ LogOf(o) = LogOf(o2)
            /\ AllOps(oplog[LogOf(o)]) # {}

\* C30: the assertion at the end of process_metadata_log holds in every
\* execution: when the pending stack is empty, so are the rename stack and
\* the rename barrier stack.
C30_StacksEmptyAtExit ==
  \A t \in Threads :
    (tpc[t] = "loop" /\ pending_stack[t] = <<>>)
      => (rename_stack[t] = <<>> /\ rename_barrier_stack[t] = <<>>)

\* C29: process_metadata_log terminates: once a thread has entered the
\* driver loop, its pending stack becomes empty and the loop is left (or the
\* kernel has stopped on an assertion).
C29_ResolverTerminates ==
  \A t \in Threads :
    (tpc[t] = "loop") ~> (tpc[t] = "flush" \/ panicked # "")

(* ---------------- claims: the locks of apply_rename_pair --------------- *)
\* thread t is in apply_rename_pair, holds the oplog lock of the source
\* directory and spins on the oplog lock of the destination, held by u
WaitsFor(t, u) ==
  /\ tpc[t] = "pair_dst"
  /\ rm_1[t].dst # rm_1[t].src
  /\ lock[rm_1[t].src] = t
  /\ lock[rm_1[t].dst] = u

\* C31: concurrent fsyncs never deadlock on oplog locks: no two threads in
\* apply_rename_pair each hold one oplog lock and wait for the lock the
\* other holds.
C31_NoOplogDeadlock ==
  \A t, u \in Threads : ~ (t # u /\ WaitsFor(t, u) /\ WaitsFor(u, t))

(* ---------------------- claims: the rename barrier --------------------- *)
\* thread t erases the rename barrier at the front of the oplog it has locked
BarrierConsumed(t) ==
  /\ InLoop(t) /\ ~ process_create[t]
  /\ Front(t).kind = "rename_barrier" /\ Front(t).mnum # root_mnum
  /\ panicked' = ""
  /\ oplog'[cur_log[t]].vec = Tail(oplog[cur_log[t]].vec)

\* the oplog of m holds no operation with a timestamp up to ts
Drained(m, ts) == \A o \in AllOps(oplog[m]) : o.ts > ts

\* no transaction was appended for an operation of an oplog that is later
\* than a rename barrier still in that oplog
NothingPastBarrier ==
  \A m \in Mnums :
    \A b \in AllOps(oplog[m]), o \in AppendedOps :
      (b.kind = "rename_barrier" /\ LogOf(o) = m) => o.ts < b.ts

SameDirPairPending(t) ==
  /\ panicked = "" /\ tpc[t] = "pair_dst"
  /\ rm_1[t].src = rm_1[t].dst
  /\ \E a, b \in AllOps(oplog[rm_1[t].src]) :
       /\ a.kind = "rename_link" /\ b.kind = "rename_unlink"
       /\ a.ts = rm_1[t].ts /\ b.ts = rm_1[t].ts

\* C33: for a rename whose source and destination parent are the same
\* directory, apply_rename_pair goes on from its check to apply the two
\* sub-operations in one transaction; it neither fails nor leaves them in
\* the oplog.
C33_SameDirPairApplied ==
  [][\A t \in Threads :
       (SameDirPairPending(t) /\ tpc'[t] # "pair_dst")
         => (panicked' = "" /\ tpc'[t] = "pair_unlink")]_vars

(* ------------------- claims: the allocator's locks ---------------------- *)
\* thread t spins on a lock that another thread holds
AllocBlocked(t) ==
  \/ apc[t] \in {"alloc_lock", "free_push"} /\ freelist_lock # ""
  \/ apc[t] = "alloc_bit" /\ write_lock[Head(free_bit_freelist)] # ""
  \/ apc[t] = "free_set" /\ write_lock[a_bno[t]] # ""

\* thread t is inside alloc_block or free_block
InAllocCall(t) ==
  apc[t] \in {"alloc_lock", "alloc_bit", "alloc_erase",
              "free_check", "free_set", "free_push"}

\* free_block takes the freelist_lock holding no bit lock
FreeTakesListLockAlone ==
  \A t \in Threads :
    (apc[t] = "free_push" /\ apc'[t] # "free_push")
      => \A b \in Bnos : write_lock[b] # t

\* alloc_block takes a bit lock only while it holds the freelist_lock
AllocTakesListLockFirst ==
  \A t \in Threads, b \in Bnos :
    (apc[t] = "alloc_bit" /\ write_lock[b] # t /\ write_lock'[b] = t)
      => freelist_lock = t

\* a thread that spins waits for a thread that can take a step
NoAllocDeadlock ==
  \A t \in Threads :
    (a_panic = "" /\ AllocBlocked(t))
      => \E u \in Threads \ {t} : InAllocCall(u) /\ ~ AllocBlocked(u)

\* C34: free_block never holds a bit lock and the freelist lock together,
\* alloc_block takes the freelist lock before the bit lock, and no
\* interleaving of alloc_block and free_block calls deadlocks.
C34_AllocLockOrder ==
  /\ [][FreeTakesListLockAlone /\ AllocTakesListLockFirst]_vars
  /\ []NoAllocDeadlock

\* C34 witness: an alloc_block call holds the freelist lock and a bit lock
\* while a free_block call, its bit set free, waits for the freelist lock.
C34_Witness ==
  \E t, u \in Threads :
    /\ apc[t] = "alloc_erase" /\ freelist_lock = t
    /\ write_lock[a_bno[t]] = t
    /\ apc[u] = "free_push" /\ a_call[u] = "free"
    /\ free_bit_vector[a_bno[u]]
    /\ \A b \in Bnos : write_lock[b] # u

(* ------------------- claims: alloc_inode_for_mnode ---------------------- *)
\* the call of alloc_inode_for_mnode made by thread t has returned
AifmReturned(t) ==
  /\ i_call[t] = "create" /\ ipc[t] \notin {"idle", "aifm_lock"}
  /\ mnode_lock[i_mnum[t]] # t

\* the inode numbers bound to mnode m in inum_to_mnum
BoundTo(m) == {i \in INums : inum_to_mnum[i] = m}

PreProcessStep ==
  /\ journal_lock = "" /\ journal_lock' # ""
  /\ \E t \in Threads : apc[t] = "idle" /\ apc'[t] = "epilog"

\* C36: the on-disk free bitmap changes only in pre_process_transaction
\* during a journal flush; alloc_block, free_block, balloc, bfree, bmap and
\* itrunc leave it unchanged.
C36_BitmapOnlyAtFlush ==
  [][bitmap' # bitmap => PreProcessStep]_vars

\* C36 witness: a block was allocated for the file and recorded in a
\* transaction of the log, another was freed in memory by bmap and recorded
\* in a transaction, and the on-disk
\* bitmap still has its boot value.
C36_Witness ==
  /\ a_panic = ""
  /\ \A b \in Bnos : bitmap[b] = (b = 0)
  /\ \E i \in DOMAIN alloc_log :
       \E b \in Range(alloc_log[i].free_block_list) : free_bit_vector[b]
  /\ \E i \in DOMAIN alloc_log, bn \in AddrSlots :
       /\ addrs[bn] # 0
       /\ addrs[bn] \in Range(alloc_log[i].allocated_block_list)
       /\ ~ free_bit_vector[addrs[bn]]

(* --------------------- claims: freeing a free block --------------------- *)
\* C37: free_block is never called on a block whose in-memory free-bit is
\* already free, so its panic 'freeing free block' is never reached: the
\* blocks of a transaction's free_block_list are still allocated in memory
\* when post_process_transaction frees them.
C37_NeverFreesFreeBlock ==
  /\ a_panic # "freeing free block"
  /\ \A t \in Threads :
       apc[t] = "free_check" => ~ free_bit_vector[a_bno[t]]

(* ------------------- claims: a crash during recovery -------------------- *)
\* a block process_journal read from a committed transaction is safe: a later
\* run would read it from the journal again, or its home location holds it
\* (or another committed block of the run is written over it)
RecoverySafe(blk) ==
  \/ blk \in CommittedBlocks(jdisk)
  \/ disk[blk.bno] = blk.data
  \/ \E other \in CommittedBlocks(j_at_scan) :
       other.bno = blk.bno /\ other # blk

\* C38: at every step of process_journal each block of a committed
\* transaction is still readable from the journal by a later run or already
\* at its home location: the journal is not reset before the home writes.
C38_CommittedSurvivesRecovery ==
  (mode = "boot" /\ rpc \in {"reset", "write"})
    => \A blk \in CommittedBlocks(j_at_scan) : RecoverySafe(blk)

(* --------------------------- claims: ialloc ------------------------------ *)
\* ialloc has returned an inode to thread t, which has not bound it yet
IallocReturned(t) == ipc[t] \in {"ialloc_found", "aifm_insert"}

\* ialloc starts its scan after the cpu's last_inode
ScanStartsAfterHint ==
  \A t \in Threads :
    (ipc[t] = "aifm_lookup" /\ ipc'[t] = "ialloc")
      => i_inum'[t] = (last_inode[t] + 1) % ninodes

\* ialloc gives up only at the end of its second pass
GivesUpAfterWrap ==
  i_panic = "ialloc: 0 inodes"
    => \E t \in Threads :
         ipc[t] = "ialloc" /\ i_inum[t] = ninodes /\ all_scanned[t]

StepOfLockHolder ==
  \E t \in Threads :
    /\ journal_lock = t /\ apc[t] \in {"jl_add", "jl_flush"}
    /\ \A u \in Threads \ {t} : apc'[u] = apc[u]

\* a flush that is inside its loop over the transaction log
FlushInLoop ==
  \E u \in Threads : apc[u] = "jl_flush" /\ batch_it <= Len(alloc_log)

\* C40: the journal has a single writer: every append to transaction_log
\* and every turn of flush_journal_locked is a step of the thread that holds
\* the journal lock, and the log does not change while a flush iterates
\* over it.
C40_JournalSingleWriter ==
  /\ [][(alloc_log' # alloc_log \/ batch_it' # batch_it)
          => StepOfLockHolder]_vars
  /\ [][FlushInLoop => alloc_log' = alloc_log]_vars
  /\ [](\A t \in Threads : apc[t] \in {"jl_add", "jl_flush"} => journal_lock = t)

\* C40 witness: a flush is inside its loop over a log of two transactions
\* while another thread waits in prepare_for_commit to append a third.
C40_Witness ==
  \E t, u \in Threads :
    /\ apc[t] = "jl_flush" /\ journal_lock = t
    /\ Len(alloc_log) = 2 /\ batch_it = 2
    /\ apc[u] = "jl_prepare" /\ a_call[u] \in {"add_op", "add_fsync"}

====
